---- MODULE Spec2Model ----
(***************************************************************************)
(* AlohoPass browser extension, background context and page context       *)
(* (src/browser-extension/background.js, class AlohoPassBackground).       *)
(*                                                                         *)
(* One event loop runs the handlers below to completion, one at a time:    *)
(* the runtime.onMessage listener (the Message Router), the native port's  *)
(* onMessage / onDisconnect listeners and the window 'message' listener    *)
(* (the Native Bridge), and the setTimeout callbacks.  The desktop         *)
(* process, the browser's tabs and the passage of time are the             *)
(* environment.                                                            *)
(*                                                                         *)
(* A page context runs class AlohoPassContentScript of the same file: the  *)
(* Field/Form Classifier (ClassifySpec) and the Suggestion Controller      *)
(* (PageSpec), with the user, the router's replies and the bridge as the   *)
(* environment.                                                            *)
(***************************************************************************)
EXTENDS Integers, Sequences, FiniteSets, TLC

VARIABLES
    isConnected,      \* this.isConnected: a JavaScript value
    connectionPort,   \* this.connectionPort: Null or the id of a native port
    openPorts,        \* native ports opened by connectNative, not yet disconnected
    portsOpened,      \* number of native ports opened so far (next port id - 1)
    customListeners,  \* window 'message' listeners added by the custom-protocol fallback
    reconnectTimers,  \* pending setTimeout(connectToTauriApp) callbacks
    responseTimers,   \* pending setTimeout(sendResponse) callbacks
    requests,         \* router messages received so far (index = the caller)
    responses,        \* sendResponse calls made so far
    posted,           \* messages posted to the native port so far
    vaultAnswers,     \* what the desktop process answered to each posted message
    tabInbox,         \* 'passwordsUpdated' messages delivered to each tab
    broadcasts,       \* passwords_updated notifications handled so far
    connectCalls,     \* history: calls of connectToTauriApp
    nativeFailures,   \* history: connectNative calls that threw
    fallbackCalls,    \* history: calls of connectUsingCustomProtocol
    disconnects,      \* history: onDisconnect events handled
    sinceDisconnect,  \* history: ms elapsed since the last onDisconnect event
    lastEvent,        \* history: the handler that ran last
    page,             \* the document a content script runs in: title and forms
    scriptLoaded,     \* the content script was constructed in this document
    forms,            \* AlohoPassContentScript.forms, in insertion order
    dom,              \* per form: what the content script added to it
    values,           \* the value of every input element of the page
    inputEvents,      \* synthetic 'input' events dispatched on each input element
    currentForm,      \* AlohoPassContentScript.currentForm: a formId or "null"
    pageIsConnected,  \* AlohoPassContentScript.isConnected: a JavaScript value
    sent,             \* history: messages the content script sent to the router
    pending,          \* callbacks of sent messages that did not run yet
    overlays,         \* suggestion overlays in the document
    overlaysCreated,  \* number of overlays created so far (next overlay id - 1)
    userEvents,       \* history: number of user events handled in the page
    pageEvent,        \* history: the page handler that ran last
    portFile,         \* the port discovery file $PORT_FILE: presence, content, last writer
    listening,        \* the <<host, port>> pairs on which something accepts connections
    ncInstalled,      \* whether 'command -v nc' finds netcat
    argv,             \* history: the arguments of the current launch of the Host Proxy
    args,             \* "$@": the positional parameters not shifted away yet
    TAURI_HOST,       \* the script variable TAURI_HOST
    targetPort,       \* the local variable port of connect_to_tauri
    pc,               \* where the Host Proxy script is
    exitStatus,       \* the exit status of the script, -1 while it has not exited
    stderr,           \* what the current launch wrote to its error stream
    probed,           \* history: the results of the 'nc -z' probes of the current launch
    relay,            \* the <<host, port>> 'exec nc' relays to, or NoRelay
    launches,         \* history: number of launches of the Host Proxy
    popupLoaded,      \* the popup document constructed AlohoPassPopup
    popupIsConnected, \* AlohoPassPopup.isConnected: a JavaScript value
    popupStats,       \* AlohoPassPopup.stats
    statusClass,      \* className of the popup's status element
    statsPanel,       \* style.display of the popup's stats element
    statsDisplay,     \* what updateStatsDisplay wrote into the stats element
    syncButton,       \* the syncNow button: innerHTML and disabled
    notices,          \* history: the notifications shown by the popup
    searchModal,      \* the search modal in the popup document, 0 without one
    modalsCreated,    \* number of search modals created so far
    searchInput,      \* the value of the search input of the modal
    searchResults,    \* the content of the results area of the modal
    popupPending,     \* promises of sendMessage that did not settle yet
    popupSent,        \* history: messages the popup sent to the router
    popupFaults,      \* history: errors that escaped a handler of the popup
    popupEvents,      \* history: number of user events handled in the popup
    popupEvent        \* history: the popup handler that ran last

vars == <<isConnected, connectionPort, openPorts, portsOpened, customListeners,
          reconnectTimers, responseTimers, requests, responses, posted,
          vaultAnswers, tabInbox, broadcasts, connectCalls, nativeFailures,
          fallbackCalls, disconnects, sinceDisconnect, lastEvent,
          page, scriptLoaded, forms, dom, values, inputEvents, currentForm,
          pageIsConnected, sent, pending, overlays, overlaysCreated,
          userEvents, pageEvent,
          portFile, listening, ncInstalled, argv, args, TAURI_HOST, targetPort, pc,
          exitStatus, stderr, probed, relay, launches,
          popupLoaded, popupIsConnected, popupStats, statusClass, statsPanel,
          statsDisplay, syncButton, notices, searchModal, modalsCreated,
          searchInput, searchResults, popupPending, popupSent, popupFaults,
          popupEvents, popupEvent>>

popupVars == <<popupLoaded, popupIsConnected, popupStats, statusClass, statsPanel,
               statsDisplay, syncButton, notices, searchModal, modalsCreated,
               searchInput, searchResults, popupPending, popupSent, popupFaults,
               popupEvents, popupEvent>>

proxyVars == <<portFile, listening, ncInstalled, argv, args, TAURI_HOST, targetPort, pc,
               exitStatus, stderr, probed, relay, launches>>

backgroundVars == <<isConnected, connectionPort, openPorts, portsOpened,
                    customListeners, reconnectTimers, responseTimers, requests,
                    responses, posted, vaultAnswers, tabInbox, broadcasts,
                    connectCalls, nativeFailures, fallbackCalls, disconnects,
                    sinceDisconnect, lastEvent>>

pageVars == <<page, scriptLoaded, forms, dom, values, inputEvents, currentForm,
              pageIsConnected, sent, pending, overlays, overlaysCreated,
              userEvents, pageEvent>>

bridgeVars == <<isConnected, connectionPort, openPorts, portsOpened, customListeners,
                connectCalls, nativeFailures, fallbackCalls>>

routerVars == <<responseTimers, requests, responses, posted>>

tabVars == <<tabInbox, broadcasts>>

---------------------------------------------------------------------------
(* Bounds of the model *)

MaxConnects == 3

MaxRequests == 1

MaxBroadcasts == 1

---------------------------------------------------------------------------
(* Program constants *)

ReconnectDelayMs == 5000

ResponseDelayMs == 100

Null == 0

Undefined == "undefined"

\* JavaScript values a 'connected' field can hold; only "true" is truthy.
JsValues == {"true", "false", Undefined}

Truthy(v) == v = "true"

NotConnectedError == "No conectado a la aplicación Tauri"

NoPortError == "Puerto de conexión no disponible"

UnknownActionError == "Acción no reconocida"

RecognizedActions == {"checkConnection", "getPasswords", "createPassword", "searchPasswords"}

---------------------------------------------------------------------------
(* Inputs *)

Domains == {"example.com", "other.org"}

FormTypes == {"login"}

Entries == {[title |-> "Example", username |-> "alice", password |-> "s3cret"]}

Queries == {"exa"}

\* Actions a page context or the popup sends that the router does not know;
\* Undefined is a message without an action field.
OtherActions == {"syncNow", Undefined}

RouterRequests ==
    {[action |-> "checkConnection"]}
    \cup {[action |-> "getPasswords", domain |-> d, formType |-> f] :
             d \in Domains, f \in FormTypes}
    \cup {[action |-> "createPassword", entry |-> e] : e \in Entries}
    \cup {[action |-> "searchPasswords", query |-> q] : q \in Queries}
    \cup {[action |-> a] : a \in OtherActions}

\* The browser's tabs: tabA is active and runs the content script, tabB is
\* active without a content script, tabC runs the content script in the
\* background.
Tabs == {"tabA", "tabB", "tabC"}

ActiveTabs == {"tabA", "tabB"}

ContentScriptTabs == {"tabA", "tabC"}

VaultEntry(id, title, user, domain) ==
    [id |-> id, title |-> title, username |-> user, password |-> "pw-" \o id,
     email |-> user, url |-> "https://" \o domain, domain |-> domain,
     category |-> "Personal", created_at |-> "t0", updated_at |-> "t0"]

\* Entry lists the vault of the desktop process can return for a domain.
VaultLists(domain) ==
    { <<>>,
      <<VaultEntry("A", "entryA", "alice", domain), VaultEntry("B", "entryB", "bob", domain)>> }

VaultErrors == {"vault locked"}

---------------------------------------------------------------------------
(* The document of a page context *)

\* An element of a form: an input or a button with its type, name and
\* placeholder attributes; "" is an attribute that is not set.
Element(tag, type, name, placeholder) ==
    [tag |-> tag, type |-> type, name |-> name, placeholder |-> placeholder]

\* A form: its text (labels, headings, button captions) and its controls in
\* document order.
Form(text, elements) == [text |-> text, elements |-> elements]

\* window.location of the page.
PageUrl == "https://example.com/account"

PageDomain == "example.com"

\* The elements of form f of document pg, as <<form, element>> pairs.
ElementsOf(pg, f) == {<<f, e>> : e \in DOMAIN pg.forms[f].elements}

InputsOf(pg, f) == {x \in ElementsOf(pg, f) : pg.forms[f].elements[x[2]].tag = "input"}

AllInputs(pg) == UNION {InputsOf(pg, f) : f \in DOMAIN pg.forms}

\* A form the content script did not touch.
Untouched == [attr |-> "", indicators |-> 0, position |-> "", listeners |-> {}]

\* The page variables of a background context that is looked at on its own.
NoPage ==
    /\ page = [title |-> "", forms |-> <<>>]
    /\ scriptLoaded = FALSE
    /\ forms = <<>>
    /\ dom = <<>>
    /\ values = <<>>
    /\ inputEvents = <<>>
    /\ currentForm = "null"
    /\ pageIsConnected = "false"
    /\ sent = <<>>
    /\ pending = {}
    /\ overlays = {}
    /\ overlaysCreated = 0
    /\ userEvents = 0
    /\ pageEvent = [type |-> "none"]

---------------------------------------------------------------------------
(* The Host Proxy script and its surroundings *)

\* $PORT_FILE, the path of the port discovery file.
PORT_FILE == "$PROJECT_DIR/.alohopass_port"

DefaultHost == "127.0.0.1"

DefaultPort == "12345"

NoRelay == <<"", "">>

\* The port discovery file does not exist.
NoPortFile == [exists |-> FALSE, content |-> "", writer |-> "none"]

\* A machine on which the Host Proxy was never launched.
ProxyIdle ==
    /\ argv = <<>>
    /\ args = <<>>
    /\ TAURI_HOST = DefaultHost
    /\ targetPort = ""
    /\ pc = "idle"
    /\ exitStatus = -1
    /\ stderr = <<>>
    /\ probed = <<>>
    /\ relay = NoRelay
    /\ launches = 0

\* The proxy variables of a specification that leaves the Host Proxy out.
NoProxy ==
    /\ portFile = NoPortFile
    /\ listening = {}
    /\ ncInstalled = TRUE
    /\ ProxyIdle

---------------------------------------------------------------------------
(* The popup document, before AlohoPassPopup is constructed in it *)

\* What popup.html puts into an element the script did not write yet.
FromHtml == "html"

\* this.stats = {}.
EmptyStats == [loaded |-> FALSE]

\* An empty results area: resultsDiv.innerHTML = ''.
NoResults == [kind |-> "empty", query |-> ""]

\* The popup variables of a popup document at DOMContentLoaded.
PopupOpened ==
    /\ popupLoaded = FALSE
    /\ popupIsConnected = "false"
    /\ popupStats = EmptyStats
    /\ statusClass = FromHtml
    /\ statsPanel = FromHtml
    /\ statsDisplay = [written |-> FALSE]
    /\ syncButton = [innerHTML |-> FromHtml, disabled |-> FALSE]
    /\ notices = <<>>
    /\ searchModal = 0
    /\ modalsCreated = 0
    /\ searchInput = ""
    /\ searchResults = NoResults
    /\ popupPending = {}
    /\ popupSent = <<>>
    /\ popupFaults = 0
    /\ popupEvents = 0
    /\ popupEvent = [type |-> "none"]

\* The popup variables of a specification that leaves the popup out.
NoPopup == PopupOpened

---------------------------------------------------------------------------
(* AlohoPassBackground *)

getMockPasswords(domain) ==
    << [id |-> "1", title |-> "Cuenta principal", username |-> "usuario@ejemplo.com",
        password |-> "********", email |-> "usuario@ejemplo.com",
        url |-> "https://" \o domain, domain |-> domain, category |-> "Personal",
        created_at |-> "now", updated_at |-> "now"],
       [id |-> "2", title |-> "Cuenta de trabajo", username |-> "trabajo@empresa.com",
        password |-> "********", email |-> "trabajo@empresa.com",
        url |-> "https://" \o domain, domain |-> domain, category |-> "Trabajo",
        created_at |-> "now", updated_at |-> "now"] >>

\* The fields of the bridge as a record, for the connect functions below.
Bridge ==
    [isConnected |-> isConnected, connectionPort |-> connectionPort,
     openPorts |-> openPorts, portsOpened |-> portsOpened,
     customListeners |-> customListeners, connectCalls |-> connectCalls,
     nativeFailures |-> nativeFailures, fallbackCalls |-> fallbackCalls,
     outcome |-> "none"]

\* The fields as the constructor leaves them before it calls init().
Constructed ==
    [isConnected |-> "false", connectionPort |-> Null,
     openPorts |-> {}, portsOpened |-> 0,
     customListeners |-> 0, connectCalls |-> 0,
     nativeFailures |-> 0, fallbackCalls |-> 0,
     outcome |-> "none"]

\* customThrows: creating or appending the iframe throws (no document in the
\* background context); the listener is then never added.
connectUsingCustomProtocol(b, customThrows) ==
    IF customThrows
    THEN [b EXCEPT !.isConnected = "false",
                   !.fallbackCalls = @ + 1,
                   !.outcome = "connect_failed"]
    ELSE [b EXCEPT !.customListeners = @ + 1,
                   !.isConnected = "true",
                   !.fallbackCalls = @ + 1,
                   !.outcome = "connect_fallback"]

\* Mutant of connectToTauriApp: the catch block forgets the fallback.
connectToTauriAppNoFallback(b, nativeThrows, customThrows) ==
    IF ~nativeThrows
    THEN LET p == b.portsOpened + 1
         IN  [b EXCEPT !.connectionPort = p,
                       !.openPorts = @ \cup {p},
                       !.portsOpened = p,
                       !.isConnected = "true",
                       !.connectCalls = @ + 1,
                       !.outcome = "connect_native"]
    ELSE [b EXCEPT !.isConnected = "false",
                   !.connectCalls = @ + 1,
                   !.nativeFailures = @ + 1,
                   !.outcome = "connect_failed"]

\* nativeThrows: chrome.runtime.connectNative throws; the assignment to
\* connectionPort then never happens.
connectToTauriApp(b, nativeThrows, customThrows) ==
    IF ~nativeThrows
    THEN LET p == b.portsOpened + 1
         IN  [b EXCEPT !.connectionPort = p,
                       !.openPorts = @ \cup {p},
                       !.portsOpened = p,
                       !.isConnected = "true",
                       !.connectCalls = @ + 1,
                       !.outcome = "connect_native"]
    ELSE connectUsingCustomProtocol(
             [b EXCEPT !.isConnected = "false",
                       !.connectCalls = @ + 1,
                       !.nativeFailures = @ + 1],
             customThrows)

\* The variables of the bridge take the fields of b.
BridgeBecomes(b) ==
    /\ isConnected' = b.isConnected
    /\ connectionPort' = b.connectionPort
    /\ openPorts' = b.openPorts
    /\ portsOpened' = b.portsOpened
    /\ customListeners' = b.customListeners
    /\ connectCalls' = b.connectCalls
    /\ nativeFailures' = b.nativeFailures
    /\ fallbackCalls' = b.fallbackCalls
    /\ lastEvent' = b.outcome

\* new AlohoPassBackground(): the constructor, init() and the first
\* connectToTauriApp().
Init ==
    \E nativeThrows \in BOOLEAN, customThrows \in BOOLEAN :
        LET b == connectToTauriApp(Constructed, nativeThrows, customThrows)
        IN  /\ isConnected = b.isConnected
            /\ connectionPort = b.connectionPort
            /\ openPorts = b.openPorts
            /\ portsOpened = b.portsOpened
            /\ customListeners = b.customListeners
            /\ connectCalls = b.connectCalls
            /\ nativeFailures = b.nativeFailures
            /\ fallbackCalls = b.fallbackCalls
            /\ lastEvent = b.outcome
            /\ reconnectTimers = <<>>
            /\ responseTimers = {}
            /\ requests = <<>>
            /\ responses = <<>>
            /\ posted = <<>>
            /\ vaultAnswers = {}
            /\ tabInbox = [t \in Tabs |-> 0]
            /\ broadcasts = 0
            /\ disconnects = 0
            /\ sinceDisconnect = -1
            /\ NoPage
            /\ NoProxy
            /\ NoPopup

---------------------------------------------------------------------------
(* The Native Bridge: disconnect, reconnect timer, inbound messages *)

Min(a, b) == IF a < b THEN a ELSE b

RemoveAt(s, i) == [j \in 1..(Len(s) - 1) |-> IF j < i THEN s[j] ELSE s[j + 1]]

\* Mutant of notifyTabsAboutUpdate: chrome.tabs.query({}) in place of
\* chrome.tabs.query({active: true}).
notifyAllTabs ==
    /\ tabInbox' = [t \in Tabs |->
                       IF t \in ContentScriptTabs
                       THEN tabInbox[t] + 1
                       ELSE tabInbox[t]]
    /\ broadcasts' = broadcasts + 1

\* notifyTabsAboutUpdate: chrome.tabs.query({active: true}) and one
\* sendMessage per tab found; a rejected sendMessage (no content script in
\* the tab) is swallowed by the empty catch.
notifyTabsAboutUpdate ==
    /\ tabInbox' = [t \in Tabs |->
                       IF t \in ActiveTabs /\ t \in ContentScriptTabs
                       THEN tabInbox[t] + 1
                       ELSE tabInbox[t]]
    /\ broadcasts' = broadcasts + 1

\* Mutant of handleTauriMessage: any notification from the desktop process
\* is taken as a sign of life.
handleTauriMessageSignOfLife(message) ==
    CASE message.type = "connection_status" ->
             /\ isConnected' = message.connected
             /\ UNCHANGED tabVars
      [] message.type = "passwords_updated" ->
             /\ notifyTabsAboutUpdate
             /\ isConnected' = "true"
      [] message.type = "error" ->
             UNCHANGED <<isConnected, tabVars>>
      [] OTHER ->
             UNCHANGED <<isConnected, tabVars>>

\* Mutant of handleTauriMessage: a message of an unknown type is taken as
\* a broken connection.
handleTauriMessageStrict(message) ==
    CASE message.type = "connection_status" ->
             /\ isConnected' = message.connected
             /\ UNCHANGED tabVars
      [] message.type = "passwords_updated" ->
             /\ notifyTabsAboutUpdate
             /\ UNCHANGED isConnected
      [] message.type = "error" ->
             UNCHANGED <<isConnected, tabVars>>
      [] OTHER ->
             /\ isConnected' = "false"
             /\ UNCHANGED tabVars

\* handleTauriMessage(message): the switch on message.type.  The 'error' case
\* and the default case only write to the console.
handleTauriMessage(message) ==
    CASE message.type = "connection_status" ->
             /\ isConnected' = message.connected
             /\ UNCHANGED tabVars
      [] message.type = "passwords_updated" ->
             /\ notifyTabsAboutUpdate
             /\ UNCHANGED isConnected
      [] message.type = "error" ->
             UNCHANGED <<isConnected, tabVars>>
      [] OTHER ->
             UNCHANGED <<isConnected, tabVars>>

\* For lastEvent: a connection_status message is told apart from the
\* messages that leave the connection state alone.
BridgeEvent(message) ==
    IF message.type = "connection_status" THEN "connection_status" ELSE "other"

\* Messages the desktop process sends on its own.  A connection_status
\* message carries whatever 'connected' value the sender put there (a
\* missing field reads as undefined); "pong" stands for any type the switch
\* does not know.
UnsolicitedMessages ==
    {[type |-> "connection_status", connected |-> v] : v \in JsValues}
    \cup {[type |-> "passwords_updated"], [type |-> "pong"]}

\* What the desktop process can answer to a message posted to the port: the
\* vault's result, or a vault error.
VaultReplies(message) ==
    {[type |-> "error", error |-> e] : e \in VaultErrors}
    \cup (CASE message.type = "get_passwords" ->
                  {[type |-> "passwords_result", passwords |-> l] :
                      l \in VaultLists(message.domain)}
            [] message.type = "search_passwords" ->
                  {[type |-> "passwords_result", passwords |-> l] :
                      l \in VaultLists("example.com")}
            [] OTHER ->
                  {[type |-> "password_created"]})

\* Mutant of OnDisconnect: setTimeout without the 5000 ms delay.
OnDisconnectNoDelay(p) ==
    /\ p \in openPorts
    /\ openPorts' = openPorts \ {p}
    /\ isConnected' = "false"
    /\ connectionPort' = Null
    /\ reconnectTimers' = Append(reconnectTimers, [delay |-> 0, elapsed |-> 0])
    /\ disconnects' = disconnects + 1
    /\ sinceDisconnect' = 0
    /\ lastEvent' = "disconnect"
    /\ UNCHANGED <<portsOpened, customListeners, connectCalls, nativeFailures,
                   fallbackCalls, routerVars, vaultAnswers, tabVars>>

\* Mutant of OnDisconnect: the listener reconnects at once and also arms the
\* timer.
OnDisconnectEager(p) ==
    /\ p \in openPorts
    /\ \E nativeThrows \in BOOLEAN, customThrows \in BOOLEAN :
           BridgeBecomes(connectToTauriApp(
               [Bridge EXCEPT !.isConnected = "false",
                              !.connectionPort = Null,
                              !.openPorts = @ \ {p}],
               nativeThrows, customThrows))
    /\ reconnectTimers' =
           Append(reconnectTimers, [delay |-> ReconnectDelayMs, elapsed |-> 0])
    /\ disconnects' = disconnects + 1
    /\ sinceDisconnect' = 0
    /\ UNCHANGED <<routerVars, vaultAnswers, tabVars>>

\* Mutant of OnDisconnect: the listener also cancels the timers of the
\* requests that were forwarded.
OnDisconnectDropsReplies(p) ==
    /\ p \in openPorts
    /\ openPorts' = openPorts \ {p}
    /\ isConnected' = "false"
    /\ connectionPort' = Null
    /\ reconnectTimers' =
           Append(reconnectTimers, [delay |-> ReconnectDelayMs, elapsed |-> 0])
    /\ responseTimers' = {}
    /\ disconnects' = disconnects + 1
    /\ sinceDisconnect' = 0
    /\ lastEvent' = "disconnect"
    /\ UNCHANGED <<portsOpened, customListeners, connectCalls, nativeFailures,
                   fallbackCalls, requests, responses, posted, vaultAnswers, tabVars>>

\* connectionPort.onDisconnect listener of port p.
OnDisconnect(p) ==
    /\ p \in openPorts
    /\ openPorts' = openPorts \ {p}
    /\ isConnected' = "false"
    /\ connectionPort' = Null
    /\ reconnectTimers' =
           Append(reconnectTimers, [delay |-> ReconnectDelayMs, elapsed |-> 0])
    /\ disconnects' = disconnects + 1
    /\ sinceDisconnect' = 0
    /\ lastEvent' = "disconnect"
    /\ UNCHANGED <<portsOpened, customListeners, connectCalls, nativeFailures,
                   fallbackCalls, routerVars, vaultAnswers, tabVars>>

\* Mutant of ReconnectTimerFires: setInterval in place of setTimeout, the
\* timer stays armed.
ReconnectTimerRepeats(i) ==
    /\ i \in DOMAIN reconnectTimers
    /\ reconnectTimers[i].elapsed >= reconnectTimers[i].delay
    /\ connectCalls < MaxConnects
    /\ \E nativeThrows \in BOOLEAN, customThrows \in BOOLEAN :
           BridgeBecomes(connectToTauriApp(Bridge, nativeThrows, customThrows))
    /\ reconnectTimers' = [reconnectTimers EXCEPT ![i].elapsed = 0]
    /\ UNCHANGED <<routerVars, vaultAnswers, tabVars, disconnects, sinceDisconnect>>

\* The callback of the i-th pending setTimeout of onDisconnect: it calls
\* connectToTauriApp().
ReconnectTimerFires(i) ==
    /\ i \in DOMAIN reconnectTimers
    /\ reconnectTimers[i].elapsed >= reconnectTimers[i].delay
    /\ connectCalls < MaxConnects
    /\ \E nativeThrows \in BOOLEAN, customThrows \in BOOLEAN :
           BridgeBecomes(connectToTauriApp(Bridge, nativeThrows, customThrows))
    /\ reconnectTimers' = RemoveAt(reconnectTimers, i)
    /\ UNCHANGED <<routerVars, vaultAnswers, tabVars, disconnects, sinceDisconnect>>

\* connectionPort.onMessage listener of port p, for a message the desktop
\* process sends on its own.
PortMessage(p, message) ==
    /\ p \in openPorts
    /\ message \in UnsolicitedMessages
    /\ message.type = "passwords_updated" => broadcasts < MaxBroadcasts
    /\ handleTauriMessage(message)
    /\ lastEvent' = BridgeEvent(message)
    /\ UNCHANGED <<connectionPort, openPorts, portsOpened, customListeners,
                   connectCalls, nativeFailures, fallbackCalls, reconnectTimers,
                   routerVars, vaultAnswers, disconnects, sinceDisconnect>>

\* The window 'message' listener of the custom-protocol fallback, for an
\* event whose origin is 'alohopass://'.  (No reachable state has more than
\* one such listener.)
WindowMessage(message) ==
    /\ customListeners > 0
    /\ message \in UnsolicitedMessages
    /\ message.type = "passwords_updated" => broadcasts < MaxBroadcasts
    /\ handleTauriMessage(message)
    /\ lastEvent' = BridgeEvent(message)
    /\ UNCHANGED <<connectionPort, openPorts, portsOpened, customListeners,
                   connectCalls, nativeFailures, fallbackCalls, reconnectTimers,
                   routerVars, vaultAnswers, disconnects, sinceDisconnect>>

\* The desktop process answers the i-th posted message on the port it came
\* from; the port's onMessage listener hands the answer to handleTauriMessage.
VaultReply(i, message) ==
    /\ i \in DOMAIN posted
    /\ posted[i].port \in openPorts
    /\ \A a \in vaultAnswers : a.req # posted[i].req
    /\ message \in VaultReplies(posted[i].message)
    /\ vaultAnswers' = vaultAnswers \cup {[req |-> posted[i].req, message |-> message]}
    /\ handleTauriMessage(message)
    /\ lastEvent' = BridgeEvent(message)
    /\ UNCHANGED <<connectionPort, openPorts, portsOpened, customListeners,
                   connectCalls, nativeFailures, fallbackCalls, reconnectTimers,
                   routerVars, disconnects, sinceDisconnect>>

---------------------------------------------------------------------------
(* The Message Router: runtime.onMessage and its handlers *)

Respond(caller, response) ==
    responses' = Append(responses, [req |-> caller, response |-> response])

\* Mutant of Refusal: no passwords list in the refusal of a query.
RefusalWithoutList(error, isQuery) == [success |-> FALSE, error |-> error]

\* The refusal of a request: the two queries add an empty passwords list.
Refusal(error, isQuery) ==
    IF isQuery
    THEN [success |-> FALSE, error |-> error, passwords |-> <<>>]
    ELSE [success |-> FALSE, error |-> error]

\* The common shape of getPasswords / createPassword / searchPasswords:
\* refuse when not connected, else post the message and arm the 100 ms timer
\* that answers, else refuse for want of a port.  (A live port's postMessage
\* does not throw; connectionPort is never a disconnected port.)
Forward(caller, message, isQuery) ==
    IF ~Truthy(isConnected)
    THEN /\ Respond(caller, Refusal(NotConnectedError, isQuery))
         /\ UNCHANGED <<posted, responseTimers>>
    ELSE IF connectionPort # Null
         THEN /\ posted' = Append(posted, [port |-> connectionPort, req |-> caller,
                                           message |-> message])
              /\ responseTimers' = responseTimers \cup
                     {[req |-> caller, delay |-> ResponseDelayMs, elapsed |-> 0]}
              /\ UNCHANGED responses
         ELSE /\ Respond(caller, Refusal(NoPortError, isQuery))
              /\ UNCHANGED <<posted, responseTimers>>

getPasswords(caller, domain, formType) ==
    Forward(caller,
            [type |-> "get_passwords", domain |-> domain, formType |-> formType],
            TRUE)

createPassword(caller, entry) ==
    Forward(caller, [type |-> "create_password", entry |-> entry], FALSE)

searchPasswords(caller, query) ==
    Forward(caller, [type |-> "search_passwords", query |-> query], TRUE)

\* Mutant of UnknownAction: a switch without the default case.
UnknownActionUnanswered(caller) ==
    UNCHANGED <<responses, posted, responseTimers>>

\* The default case of the router's switch.
UnknownAction(caller) ==
    /\ Respond(caller, [success |-> FALSE, error |-> UnknownActionError])
    /\ UNCHANGED <<posted, responseTimers>>

\* case 'checkConnection'.
checkConnection(caller) ==
    /\ Respond(caller, [connected |-> isConnected])
    /\ UNCHANGED <<posted, responseTimers>>

\* The chrome.runtime.onMessage listener, for one message of a page context
\* or of the popup.
OnMessage(request) ==
    /\ Len(requests) < MaxRequests
    /\ request \in RouterRequests
    /\ requests' = Append(requests, request)
    /\ LET caller == Len(requests) + 1
       IN  CASE request.action = "checkConnection" -> checkConnection(caller)
             [] request.action = "getPasswords" ->
                    getPasswords(caller, request.domain, request.formType)
             [] request.action = "createPassword" ->
                    createPassword(caller, request.entry)
             [] request.action = "searchPasswords" ->
                    searchPasswords(caller, request.query)
             [] OTHER -> UnknownAction(caller)
    /\ lastEvent' = "other"
    /\ UNCHANGED <<bridgeVars, reconnectTimers, vaultAnswers, tabVars,
                   disconnects, sinceDisconnect>>

\* What the 100 ms timer of a forwarded request passes to sendResponse.
SimulatedResponse(request) ==
    CASE request.action = "getPasswords" ->
             [success |-> TRUE, passwords |-> getMockPasswords(request.domain)]
      [] request.action = "searchPasswords" ->
             [success |-> TRUE, passwords |-> getMockPasswords("*")]
      [] OTHER ->
             [success |-> TRUE]

\* The callback of the setTimeout armed when a request was forwarded.
ResponseTimerFires(t) ==
    /\ t \in responseTimers
    /\ t.elapsed >= t.delay
    /\ Respond(t.req, SimulatedResponse(requests[t.req]))
    /\ responseTimers' = responseTimers \ {t}
    /\ lastEvent' = "other"
    /\ UNCHANGED <<bridgeVars, reconnectTimers, requests, posted, vaultAnswers,
                   tabVars, disconnects, sinceDisconnect>>

---------------------------------------------------------------------------
(* Time *)

\* Time left until each pending timer is due.
Deadlines ==
    {reconnectTimers[i].delay - reconnectTimers[i].elapsed : i \in DOMAIN reconnectTimers}
    \cup {t.delay - t.elapsed : t \in responseTimers}

Advance(t, d) == [t EXCEPT !.elapsed = Min(t.elapsed + d, t.delay)]

\* d ms pass, up to the next moment at which some timer becomes due.  A due
\* timer fires at some later step, never before it is due.
Tick(d) ==
    /\ d \in Deadlines
    /\ d > 0
    /\ reconnectTimers' = [i \in DOMAIN reconnectTimers |-> Advance(reconnectTimers[i], d)]
    /\ responseTimers' = {Advance(t, d) : t \in responseTimers}
    /\ sinceDisconnect' = IF sinceDisconnect < 0
                          THEN sinceDisconnect
                          ELSE Min(sinceDisconnect + d, ReconnectDelayMs)
    /\ UNCHANGED <<bridgeVars, requests, responses, posted, vaultAnswers, tabVars,
                   disconnects, lastEvent>>

---------------------------------------------------------------------------

Next ==
    \/ /\ \E p \in openPorts : OnDisconnect(p)
       /\ UNCHANGED <<pageVars, proxyVars, popupVars>>
    \/ /\ \E i \in DOMAIN reconnectTimers : ReconnectTimerFires(i)
       /\ UNCHANGED <<pageVars, proxyVars, popupVars>>
    \/ /\ \E p \in openPorts, m \in UnsolicitedMessages : PortMessage(p, m)
       /\ UNCHANGED <<pageVars, proxyVars, popupVars>>
    \/ /\ \E m \in UnsolicitedMessages : WindowMessage(m)
       /\ UNCHANGED <<pageVars, proxyVars, popupVars>>
    \/ /\ \E i \in DOMAIN posted : \E m \in VaultReplies(posted[i].message) : VaultReply(i, m)
       /\ UNCHANGED <<pageVars, proxyVars, popupVars>>
    \/ /\ \E request \in RouterRequests : OnMessage(request)
       /\ UNCHANGED <<pageVars, proxyVars, popupVars>>
    \/ /\ \E t \in responseTimers : ResponseTimerFires(t)
       /\ UNCHANGED <<pageVars, proxyVars, popupVars>>
    \/ /\ \E d \in Deadlines : Tick(d)
       /\ UNCHANGED <<pageVars, proxyVars, popupVars>>

Spec == Init /\ [][Next]_vars

---------------------------------------------------------------------------
(* AlohoPassContentScript: the Field/Form Classifier *)

\* String.prototype.includes.
Includes(s, k) ==
    \E i \in 1..(Len(s) - Len(k) + 1) : SubSeq(s, i, i + Len(k) - 1) = k

UpperCase == "ABCDEFGHIJKLMNOPQRSTUVWXYZÁÉÍÓÚÑ"

LowerCase == "abcdefghijklmnopqrstuvwxyzáéíóúñ"

LowerChar(c) ==
    IF \E i \in 1..Len(UpperCase) : SubSeq(UpperCase, i, i) = c
    THEN LET i == CHOOSE j \in 1..Len(UpperCase) : SubSeq(UpperCase, j, j) = c
         IN  SubSeq(LowerCase, i, i)
    ELSE c

\* String.prototype.toLowerCase.
RECURSIVE toLowerCase(_)
toLowerCase(s) ==
    IF Len(s) = 0
    THEN ""
    ELSE LowerChar(SubSeq(s, 1, 1)) \o toLowerCase(SubSeq(s, 2, Len(s)))

Attribute(name, value) ==
    IF value = "" THEN "" ELSE " " \o name \o "=\"" \o value \o "\""

\* The markup of one element as innerHTML serializes it.
outerHTML(e) ==
    "<" \o e.tag \o Attribute("type", e.type) \o Attribute("name", e.name)
        \o Attribute("placeholder", e.placeholder) \o ">"
        \o (IF e.tag = "button" THEN "</button>" ELSE "")

RECURSIVE Markup(_)
Markup(elements) ==
    IF elements = <<>>
    THEN ""
    ELSE outerHTML(Head(elements)) \o Markup(Tail(elements))

\* form.textContent and form.innerHTML.
textContent(form) == form.text

innerHTML(form) == form.text \o Markup(form.elements)

\* A simple selector tag[attr="val"], tag[attr*="val"] or tag:not([attr]).
Selector(tag, attr, op, val) == [tag |-> tag, attr |-> attr, op |-> op, val |-> val]

Matches(e, sel) ==
    /\ e.tag = sel.tag
    /\ CASE sel.op = "=" -> e[sel.attr] = sel.val
         [] sel.op = "*=" -> Includes(e[sel.attr], sel.val)
         [] sel.op = "not" -> e[sel.attr] = ""

\* form.querySelector of a selector list: the first element in document
\* order that matches any selector of the list, or Null.
querySelector(form, selectors) ==
    LET hits == {i \in DOMAIN form.elements :
                    \E sel \in selectors : Matches(form.elements[i], sel)}
    IN  IF hits = {}
        THEN Null
        ELSE CHOOSE i \in hits : \A j \in hits : i <= j

\* a || b for element references.
OrElse(a, b) == IF a # Null THEN a ELSE b

\* Mutant of loginKeywords: the list without 'password'.
loginKeywordsNoPassword ==
    {"login", "signin", "sign in", "log in", "iniciar sesión",
     "acceder", "entrar", "usuario", "contraseña"}

loginKeywords ==
    {"login", "signin", "sign in", "log in", "iniciar sesión",
     "acceder", "entrar", "usuario", "contraseña", "password"}

signupKeywords ==
    {"signup", "sign up", "register", "registro", "registrarse",
     "crear cuenta", "nueva cuenta", "suscribirse"}

HasKeyword(form, keywords) ==
    LET formText == toLowerCase(textContent(form))
        formHTML == toLowerCase(innerHTML(form))
    IN  \E keyword \in keywords :
            Includes(formText, keyword) \/ Includes(formHTML, keyword)

PasswordSelectors == {Selector("input", "type", "=", "password")}

UsernameFieldSelectors ==
    {Selector("input", "name", "*=", "user"),
     Selector("input", "name", "*=", "email"),
     Selector("input", "name", "*=", "login")}

\* Mutant of isLoginOrSignupForm: the keywords alone decide.
isLoginOrSignupFormKeywordsOnly(form) ==
    HasKeyword(form, loginKeywords) \/ HasKeyword(form, signupKeywords)

isLoginOrSignupForm(form) ==
    LET hasLoginKeywords == HasKeyword(form, loginKeywords)
        hasSignupKeywords == HasKeyword(form, signupKeywords)
        hasPasswordField == querySelector(form, PasswordSelectors) # Null
        hasUsernameField == querySelector(form, UsernameFieldSelectors) # Null
    IN  (hasLoginKeywords \/ hasSignupKeywords) /\ (hasPasswordField \/ hasUsernameField)

\* Mutant of detectFormType: login keywords take precedence.
detectFormTypeLoginFirst(form) ==
    IF HasKeyword(form, loginKeywordsNoPassword)
    THEN "login"
    ELSE IF HasKeyword(form, signupKeywords) THEN "signup" ELSE "login"

detectFormType(form) ==
    IF HasKeyword(form, signupKeywords) THEN "signup" ELSE "login"

\* Mutant of extractFormFields: the username is looked up by type and
\* placeholder only, not by name.
extractFormFieldsByType(form) ==
    [username |->
         OrElse(querySelector(form, {Selector("input", "type", "=", "email")}),
                querySelector(form, {Selector("input", "placeholder", "*=", "usuario"),
                                     Selector("input", "placeholder", "*=", "email")})),
     password |-> querySelector(form, PasswordSelectors),
     email |->
         OrElse(querySelector(form, {Selector("input", "type", "=", "email")}),
                querySelector(form, {Selector("input", "name", "*=", "email")})),
     submit |->
         querySelector(form, {Selector("input", "type", "=", "submit"),
                              Selector("button", "type", "=", "submit"),
                              Selector("button", "type", "not", "")})]

extractFormFields(form) ==
    [username |->
         OrElse(querySelector(form, UsernameFieldSelectors),
         OrElse(querySelector(form, {Selector("input", "type", "=", "email")}),
                querySelector(form, {Selector("input", "placeholder", "*=", "usuario"),
                                     Selector("input", "placeholder", "*=", "email")}))),
     password |-> querySelector(form, PasswordSelectors),
     email |->
         OrElse(querySelector(form, {Selector("input", "type", "=", "email")}),
                querySelector(form, {Selector("input", "name", "*=", "email")})),
     submit |->
         querySelector(form, {Selector("input", "type", "=", "submit"),
                              Selector("button", "type", "=", "submit"),
                              Selector("button", "type", "not", "")})]

FormId(formIndex) == "alohopass-form-" \o ToString(formIndex)

\* Map.prototype.set on a Map kept as the sequence of its values in
\* insertion order, keyed by formId.
MapSet(map, record) ==
    IF \E j \in DOMAIN map : map[j].formId = record.formId
    THEN [j \in DOMAIN map |->
             IF map[j].formId = record.formId THEN record ELSE map[j]]
    ELSE Append(map, record)

\* Mutant of addFormIndicator: the form is taken out of the flow.
addFormIndicatorAbsolute(d) == [d EXCEPT !.indicators = @ + 1, !.position = "absolute"]

\* addFormIndicator: the indicator element is appended to the form, whose
\* position becomes relative.
addFormIndicator(d) == [d EXCEPT !.indicators = @ + 1, !.position = "relative"]

\* The forEach of detectForms from the i-th form of the document on; acc
\* holds this.forms and the forms' additions so far.
RECURSIVE detectFormsFrom(_, _, _, _)
detectFormsFrom(pg, i, formIndex, acc) ==
    IF i > Len(pg.forms)
    THEN acc
    ELSE LET form == pg.forms[i]
         IN  IF isLoginOrSignupForm(form)
             THEN LET formId == FormId(formIndex)
                      record == [formId |-> formId,
                                 element |-> i,
                                 type |-> detectFormType(form),
                                 fields |-> extractFormFields(form),
                                 url |-> PageUrl,
                                 domain |-> PageDomain]
                  IN  detectFormsFrom(pg, i + 1, formIndex + 1,
                          [forms |-> MapSet(acc.forms, record),
                           dom |-> [acc.dom EXCEPT ![i] =
                                       addFormIndicator([@ EXCEPT !.attr = formId])]])
             ELSE detectFormsFrom(pg, i + 1, formIndex, acc)

\* Mutant of detectForms: formIndex is not advanced.
detectFormsSameId(pg, d) ==
    LET candidates == {i \in DOMAIN pg.forms : isLoginOrSignupForm(pg.forms[i])}
    IN  [forms |-> IF candidates = {}
                   THEN <<>>
                   ELSE LET i == CHOOSE j \in candidates : \A k \in candidates : k <= j
                        IN  <<[formId |-> FormId(0),
                               element |-> i,
                               type |-> detectFormType(pg.forms[i]),
                               fields |-> extractFormFields(pg.forms[i]),
                               url |-> PageUrl,
                               domain |-> PageDomain]>>,
         dom |-> [i \in DOMAIN d |->
                     IF i \in candidates
                     THEN addFormIndicator([d[i] EXCEPT !.attr = FormId(0)])
                     ELSE d[i]]]

\* detectForms over document.querySelectorAll('form'), formIndex from 0.
detectForms(pg, d) == detectFormsFrom(pg, 1, 0, [forms |-> <<>>, dom |-> d])

\* setupEventListeners: a focusin and a submit listener on the element of
\* every entry of this.forms; each listener closes over its formId.
setupEventListeners(map, d) ==
    [i \in DOMAIN d |->
        [d[i] EXCEPT !.listeners = @ \cup
            UNION {{[type |-> "focusin", formId |-> map[j].formId],
                    [type |-> "submit", formId |-> map[j].formId]} :
                   j \in {k \in DOMAIN map : map[k].element = i}}]]

\* this.forms.get(formId).
FormData(formId) == forms[CHOOSE j \in DOMAIN forms : forms[j].formId = formId]

\* What the router passes to the callback of a message of the content
\* script: checkConnection is answered at once, a forwarded request by the
\* 100 ms timer, a refused one at once.
RouterReply(request) ==
    CASE request.action = "checkConnection" ->
             [connected |-> isConnected]
      [] request.action \in {"getPasswords", "createPassword"} ->
             IF ~Truthy(isConnected)
             THEN Refusal(NotConnectedError, request.action = "getPasswords")
             ELSE IF connectionPort # Null
                  THEN SimulatedResponse(request)
                  ELSE Refusal(NoPortError, request.action = "getPasswords")

\* chrome.runtime.sendMessage(request, callback): the callback runs later,
\* with the router's response; context is what the callback closes over.
sendMessage(request, context) ==
    /\ sent' = Append(sent, request)
    /\ pending' = pending \cup
           {[id |-> Len(sent) + 1, request |-> request,
             response |-> RouterReply(request), context |-> context]}

NoContext == [formId |-> "", input |-> <<0, 0>>]

\* new AlohoPassContentScript(): detectForms, setupEventListeners and
\* checkConnection, once per page load.
ContentScriptInit ==
    /\ ~scriptLoaded
    /\ scriptLoaded' = TRUE
    /\ LET detected == detectForms(page, dom)
       IN  /\ forms' = detected.forms
           /\ dom' = setupEventListeners(detected.forms, detected.dom)
    /\ sendMessage([action |-> "checkConnection"], NoContext)
    /\ pageEvent' = [type |-> "init"]
    /\ UNCHANGED <<page, values, inputEvents, currentForm, pageIsConnected,
                   overlays, overlaysCreated, userEvents, backgroundVars, proxyVars, popupVars>>

\* The background context as a page context finds it: connected or not,
\* with or without a native port, and otherwise idle.
BackgroundIs(connected, port) ==
    /\ isConnected = connected
    /\ connectionPort = port
    /\ openPorts = IF port = Null THEN {} ELSE {port}
    /\ portsOpened = IF port = Null THEN 0 ELSE port
    /\ customListeners = 0
    /\ reconnectTimers = <<>>
    /\ responseTimers = {}
    /\ requests = <<>>
    /\ responses = <<>>
    /\ posted = <<>>
    /\ vaultAnswers = {}
    /\ tabInbox = [t \in Tabs |-> 0]
    /\ broadcasts = 0
    /\ connectCalls = 1
    /\ nativeFailures = 0
    /\ fallbackCalls = 0
    /\ disconnects = 0
    /\ sinceDisconnect = -1
    /\ lastEvent = "other"

\* A document at document_idle, before the content script runs in it; its
\* inputs hold v (the page's markup or the browser prefilled them).
PageLoadedWith(pg, v) ==
    /\ page = pg
    /\ scriptLoaded = FALSE
    /\ forms = <<>>
    /\ dom = [i \in DOMAIN pg.forms |-> Untouched]
    /\ values = [x \in AllInputs(pg) |-> v]
    /\ inputEvents = [x \in AllInputs(pg) |-> 0]
    /\ currentForm = "null"
    /\ pageIsConnected = "false"
    /\ sent = <<>>
    /\ pending = {}
    /\ overlays = {}
    /\ overlaysCreated = 0
    /\ userEvents = 0
    /\ pageEvent = [type |-> "none"]

\* A document whose inputs are empty.
PageLoaded(pg) == PageLoadedWith(pg, "")

---------------------------------------------------------------------------
(* Classification of bounded documents *)

MaxInputs == 2

MaxForms == 2

ClassifyTexts ==
    {"", "Login", "Sign Up", "Registrarse", "Log in or register",
     "Newsletter", "CONTRASEÑA"}

ElementCatalog ==
    {Element("input", "password", "", ""),
     Element("input", "password", "login_password", ""),
     Element("input", "email", "email", ""),
     Element("input", "email", "", ""),
     Element("input", "text", "username", ""),
     Element("input", "text", "q", ""),
     Element("input", "text", "", "usuario"),
     Element("button", "", "", "")}

ElementLists == UNION {[1..n -> ElementCatalog] : n \in 0..MaxInputs}

\* Forms that make up the documents with several forms.
SampleForms ==
    {Form("Suscribirse", <<Element("input", "email", "email", "")>>),
     Form("Login", <<Element("input", "text", "username", ""),
                     Element("input", "password", "", "")>>),
     Form("Sign Up", <<Element("input", "email", "email", ""),
                       Element("input", "password", "", "")>>),
     Form("Search", <<Element("input", "text", "q", "")>>)}

ClassifyPages ==
    {[title |-> "", forms |-> <<Form(text, elements)>>] :
        text \in ClassifyTexts, elements \in ElementLists}
    \cup {[title |-> "", forms |-> fs] :
            fs \in UNION {[1..n -> SampleForms] : n \in 0..MaxForms}}

\* What the inputs of a document hold when the content script starts.
Prefilled == {"", "hunter2"}

ClassifyInit ==
    /\ \E pg \in ClassifyPages, v \in Prefilled : PageLoadedWith(pg, v)
    /\ BackgroundIs("false", Null)
    /\ NoProxy
    /\ NoPopup

ClassifyNext == ContentScriptInit

ClassifySpec == ClassifyInit /\ [][ClassifyNext]_vars

---------------------------------------------------------------------------
(* AlohoPassContentScript: the Suggestion Controller *)

MaxUserEvents == 3

\* What a user types into an input.
TypedValues == {"hunter2"}

\* Where a click lands outside every overlay: an input of the page or,
\* as <<0, 0>>, anywhere else in the document.
Elsewhere == <<0, 0>>

\* The focusin or submit listeners on form f.
Listeners(f, type) == {l \in dom[f].listeners : l.type = type}

\* showAutofillSuggestions: nothing without the connection flag, else a
\* getPasswords message whose callback closes over input and formData.
showAutofillSuggestions(input, formData) ==
    IF ~Truthy(pageIsConnected)
    THEN UNCHANGED <<sent, pending>>
    ELSE sendMessage([action |-> "getPasswords",
                      domain |-> formData.domain,
                      formType |-> formData.type],
                     [formId |-> formData.formId, input |-> input])

\* The focusin listener of a classified form, for a focus on input x of it.
Focus(x) ==
    /\ userEvents < MaxUserEvents
    /\ x \in AllInputs(page)
    /\ \E l \in Listeners(x[1], "focusin") :
           /\ currentForm' = l.formId
           /\ showAutofillSuggestions(x, FormData(l.formId))
    /\ userEvents' = userEvents + 1
    /\ pageEvent' = [type |-> "focus", input |-> x]
    /\ UNCHANGED <<page, scriptLoaded, forms, dom, values, inputEvents,
                   pageIsConnected, overlays, overlaysCreated, backgroundVars, proxyVars, popupVars>>

\* The callback of checkConnection: this.isConnected = response && response.connected.
ConnectionAnswer(p) ==
    /\ p \in pending
    /\ p.request.action = "checkConnection"
    /\ pageIsConnected' = p.response.connected
    /\ pending' = pending \ {p}
    /\ UNCHANGED <<page, scriptLoaded, forms, dom, values, inputEvents, currentForm,
                   sent, overlays, overlaysCreated, userEvents, pageEvent,
                   backgroundVars, proxyVars, popupVars>>

\* displayPasswordSuggestions: a new overlay with one item per password and
\* the create-new button is appended to document.body, and a click listener
\* for it is added to the document.
displayPasswordSuggestions(input, passwords, formData) ==
    /\ overlays' = overlays \cup
           {[id |-> overlaysCreated + 1, formId |-> formData.formId,
             input |-> input, passwords |-> passwords]}
    /\ overlaysCreated' = overlaysCreated + 1

\* Mutant of SuggestionsAnswer: the callback reads this.currentForm
\* instead of the formData it closed over.
SuggestionsAnswerCurrentForm(p) ==
    /\ p \in pending
    /\ p.request.action = "getPasswords"
    /\ IF p.response.success
       THEN displayPasswordSuggestions(p.context.input, p.response.passwords,
                                       FormData(currentForm))
       ELSE UNCHANGED <<overlays, overlaysCreated>>
    /\ pending' = pending \ {p}
    /\ UNCHANGED <<page, scriptLoaded, forms, dom, values, inputEvents, currentForm,
                   pageIsConnected, sent, userEvents, pageEvent, backgroundVars, proxyVars, popupVars>>

\* The callback of getPasswords.
SuggestionsAnswer(p) ==
    /\ p \in pending
    /\ p.request.action = "getPasswords"
    /\ IF p.response.success
       THEN displayPasswordSuggestions(p.context.input, p.response.passwords,
                                       FormData(p.context.formId))
       ELSE UNCHANGED <<overlays, overlaysCreated>>
    /\ pending' = pending \ {p}
    /\ UNCHANGED <<page, scriptLoaded, forms, dom, values, inputEvents, currentForm,
                   pageIsConnected, sent, userEvents, pageEvent, backgroundVars, proxyVars, popupVars>>

\* The callback of createPassword: a log line.
CreateAnswer(p) ==
    /\ p \in pending
    /\ p.request.action = "createPassword"
    /\ pending' = pending \ {p}
    /\ UNCHANGED <<page, scriptLoaded, forms, dom, values, inputEvents, currentForm,
                   pageIsConnected, sent, overlays, overlaysCreated, userEvents,
                   pageEvent, backgroundVars, proxyVars, popupVars>>

\* The document click listeners of the overlays, for a click on target
\* outside every overlay: each overlay not opened by target is removed.
ClickOutside(target) ==
    /\ userEvents < MaxUserEvents
    /\ target \in AllInputs(page) \cup {Elsewhere}
    /\ overlays # {}
    /\ overlays' = {o \in overlays : o.input = target}
    /\ userEvents' = userEvents + 1
    /\ pageEvent' = [type |-> "click", target |-> target]
    /\ UNCHANGED <<page, scriptLoaded, forms, dom, values, inputEvents, currentForm,
                   pageIsConnected, sent, pending, overlaysCreated, backgroundVars, proxyVars, popupVars>>

\* field.value = value; field.dispatchEvent(new Event('input')), when the
\* slot and the value are both truthy.  st holds values and inputEvents.
WriteField(st, f, slot, value) ==
    IF slot # Null /\ value # ""
    THEN [values |-> [st.values EXCEPT ![<<f, slot>>] = value],
          inputEvents |-> [st.inputEvents EXCEPT ![<<f, slot>>] = @ + 1]]
    ELSE st

\* autofillForm: username, password and email, in this order.
autofillForm(formData, password) ==
    LET f == formData.element
        st0 == [values |-> values, inputEvents |-> inputEvents]
        st1 == WriteField(st0, f, formData.fields.username, password.username)
        st2 == WriteField(st1, f, formData.fields.password, password.password)
    IN  WriteField(st2, f, formData.fields.email, password.email)

\* Mutant of ClickItem: the item autofills and leaves the overlays displayed.
ClickItemKeepsOverlay(o, i) ==
    /\ userEvents < MaxUserEvents
    /\ o \in overlays
    /\ i \in DOMAIN o.passwords
    /\ LET st == autofillForm(FormData(o.formId), o.passwords[i])
       IN  /\ values' = st.values
           /\ inputEvents' = st.inputEvents
    /\ userEvents' = userEvents + 1
    /\ pageEvent' = [type |-> "select", formId |-> o.formId, password |-> o.passwords[i]]
    /\ UNCHANGED <<page, scriptLoaded, forms, dom, currentForm, pageIsConnected,
                   sent, pending, overlays, overlaysCreated, backgroundVars, proxyVars, popupVars>>

\* The click listener of item i of overlay o: autofill and overlay.remove().
\* The click then reaches the document, where the listener of every other
\* overlay removes its overlay (the target is outside it).
ClickItem(o, i) ==
    /\ userEvents < MaxUserEvents
    /\ o \in overlays
    /\ i \in DOMAIN o.passwords
    /\ LET st == autofillForm(FormData(o.formId), o.passwords[i])
       IN  /\ values' = st.values
           /\ inputEvents' = st.inputEvents
    /\ overlays' = {}
    /\ userEvents' = userEvents + 1
    /\ pageEvent' = [type |-> "select", formId |-> o.formId, password |-> o.passwords[i]]
    /\ UNCHANGED <<page, scriptLoaded, forms, dom, currentForm, pageIsConnected,
                   sent, pending, overlaysCreated, backgroundVars, proxyVars, popupVars>>

FieldValue(f, slot) == IF slot # Null THEN values[<<f, slot>>] ELSE ""

\* Mutant of createNewPasswordEntry: the entry is built from empty fields.
createNewPasswordEntryBlank(formData) ==
    sendMessage([action |-> "createPassword",
                 entry |-> [title |-> IF page.title # "" THEN page.title ELSE formData.domain,
                            username |-> "",
                            password |-> "",
                            email |-> "",
                            url |-> formData.url,
                            domain |-> formData.domain,
                            type |-> formData.type]],
                NoContext)

\* createNewPasswordEntry: the entry is read off the role-mapped fields and
\* sent to the router.
createNewPasswordEntry(formData) ==
    sendMessage([action |-> "createPassword",
                 entry |-> [title |-> IF page.title # "" THEN page.title ELSE formData.domain,
                            username |-> FieldValue(formData.element, formData.fields.username),
                            password |-> FieldValue(formData.element, formData.fields.password),
                            email |-> FieldValue(formData.element, formData.fields.email),
                            url |-> formData.url,
                            domain |-> formData.domain,
                            type |-> formData.type]],
                NoContext)

\* The click listener of the create-new button of overlay o.
ClickCreate(o) ==
    /\ userEvents < MaxUserEvents
    /\ o \in overlays
    /\ createNewPasswordEntry(FormData(o.formId))
    /\ overlays' = {}
    /\ userEvents' = userEvents + 1
    /\ pageEvent' = [type |-> "create", formId |-> o.formId]
    /\ UNCHANGED <<page, scriptLoaded, forms, dom, values, inputEvents, currentForm,
                   pageIsConnected, overlaysCreated, backgroundVars, proxyVars, popupVars>>

\* Mutant of handleFormSubmit: every submitted form creates an entry.
handleFormSubmitAnyType(formData) ==
    createNewPasswordEntry(formData)

handleFormSubmit(formData) ==
    IF formData.type = "signup"
    THEN createNewPasswordEntry(formData)
    ELSE UNCHANGED <<sent, pending>>

\* The submit listener of a classified form, for a submit event on form f.
Submit(f) ==
    /\ userEvents < MaxUserEvents
    /\ f \in DOMAIN page.forms
    /\ \E l \in Listeners(f, "submit") : handleFormSubmit(FormData(l.formId))
    /\ userEvents' = userEvents + 1
    /\ pageEvent' = [type |-> "submit", form |-> f]
    /\ UNCHANGED <<page, scriptLoaded, forms, dom, values, inputEvents, currentForm,
                   pageIsConnected, overlays, overlaysCreated, backgroundVars, proxyVars, popupVars>>

\* The user types v into input x.
Type(x, v) ==
    /\ userEvents < MaxUserEvents
    /\ x \in AllInputs(page)
    /\ v \in TypedValues
    /\ values[x] # v
    /\ values' = [values EXCEPT ![x] = v]
    /\ userEvents' = userEvents + 1
    /\ pageEvent' = [type |-> "type", input |-> x]
    /\ UNCHANGED <<page, scriptLoaded, forms, dom, inputEvents, currentForm,
                   pageIsConnected, sent, pending, overlays, overlaysCreated,
                   backgroundVars, proxyVars, popupVars>>

\* The states of the bridge a page context can find: isConnected and
\* whether a native port is held.
BridgeStates == {<<"true", 1>>, <<"true", Null>>, <<"false", Null>>}

\* The background context moves on: the bridge connects or disconnects.
BridgeChanges(b) ==
    /\ b \in BridgeStates
    /\ b # <<isConnected, connectionPort>>
    /\ isConnected' = b[1]
    /\ connectionPort' = b[2]
    /\ UNCHANGED <<openPorts, portsOpened, customListeners, reconnectTimers,
                   responseTimers, requests, responses, posted, vaultAnswers,
                   tabInbox, broadcasts, connectCalls, nativeFailures, fallbackCalls,
                   disconnects, sinceDisconnect, lastEvent, pageVars, proxyVars, popupVars>>

\* The documents of the page specification.
DemoPages ==
    {[title |-> "Sign in",
      forms |-> <<Form("Login", <<Element("input", "text", "username", ""),
                                  Element("input", "password", "", "")>>)>>],
     [title |-> "",
      forms |-> <<Form("Sign Up", <<Element("input", "email", "email", ""),
                                    Element("input", "password", "", "")>>)>>],
     [title |-> "Account",
      forms |-> <<Form("Login", <<Element("input", "password", "login_password", "")>>),
                  Form("Sign Up", <<Element("input", "text", "username", ""),
                                    Element("input", "password", "", "")>>)>>]}

PageInit ==
    /\ \E pg \in DemoPages : PageLoaded(pg)
    /\ \E b \in BridgeStates : BackgroundIs(b[1], b[2])
    /\ NoProxy
    /\ NoPopup

PageNext ==
    \/ ContentScriptInit
    \/ \E p \in pending : ConnectionAnswer(p)
    \/ \E p \in pending : SuggestionsAnswer(p)
    \/ \E p \in pending : CreateAnswer(p)
    \/ \E x \in AllInputs(page) : Focus(x)
    \/ \E target \in AllInputs(page) \cup {Elsewhere} : ClickOutside(target)
    \/ \E o \in overlays : \E i \in DOMAIN o.passwords : ClickItem(o, i)
    \/ \E o \in overlays : ClickCreate(o)
    \/ \E f \in DOMAIN page.forms : Submit(f)
    \/ \E x \in AllInputs(page), v \in TypedValues : Type(x, v)
    \/ \E b \in BridgeStates : BridgeChanges(b)

PageSpec == PageInit /\ [][PageNext]_vars

---------------------------------------------------------------------------
(* The Host Proxy: connect-to-tauri.sh *)

MaxArgs == 2

MaxLaunches == 2

\* Words a launch can pass on the command line.
ArgWords == {"-h", "-p", "--port", "-H", "5000", "10.0.0.2", "--bogus"}

ArgLists == UNION {[1..n -> ArgWords] : n \in 0..MaxArgs}

\* Ports the desktop process can listen on.
DesktopPorts == {DefaultPort, "5000"}

\* What every proxy action leaves alone.
outsideProxy == <<backgroundVars, pageVars, popupVars>>

\* Mutant of get_port: no default port.
get_portNoDefault(file) == IF file.exists THEN file.content ELSE ""

\* get_port: the content of the port file, or 12345 without a file.
get_port(file) == IF file.exists THEN file.content ELSE DefaultPort

\* 'shift 2': without two parameters left, nothing is shifted.
Shift2(params) == IF Len(params) >= 2 THEN SubSeq(params, 3, Len(params)) ELSE params

\* "$2", empty when unset.
Arg2(params) == IF Len(params) >= 2 THEN params[2] ELSE ""

\* exit n.
Exit(n) ==
    /\ exitStatus' = n
    /\ pc' = "exited"

\* The native-messaging subsystem (or a user) launches the script; an
\* earlier launch has exited or its relay has ended.
Launch(a) ==
    /\ launches < MaxLaunches
    /\ pc \in {"idle", "exited", "relay"}
    /\ a \in ArgLists
    /\ argv' = a
    /\ args' = a
    /\ TAURI_HOST' = DefaultHost
    /\ targetPort' = ""
    /\ pc' = "args"
    /\ exitStatus' = -1
    /\ stderr' = <<>>
    /\ probed' = <<>>
    /\ relay' = NoRelay
    /\ launches' = launches + 1
    /\ UNCHANGED <<portFile, listening, ncInstalled, outsideProxy>>

\* -h|--help: show_help and exit 0.
ParseHelp ==
    /\ pc = "args"
    /\ args # <<>>
    /\ Head(args) \in {"-h", "--help"}
    /\ Exit(0)
    /\ UNCHANGED <<portFile, listening, ncInstalled, argv, args, TAURI_HOST, targetPort,
                   stderr, probed, relay, launches, outsideProxy>>

\* Mutant of ParsePort: the port is kept in a variable, not in the file.
ParsePortNoWrite ==
    /\ pc = "args"
    /\ args # <<>>
    /\ Head(args) \in {"-p", "--port"}
    /\ args' = Shift2(args)
    /\ UNCHANGED <<portFile, listening, ncInstalled, argv, TAURI_HOST, targetPort, pc,
                   exitStatus, stderr, probed, relay, launches, outsideProxy>>

\* -p|--port: echo "$2" > "$PORT_FILE"; shift 2.
ParsePort ==
    /\ pc = "args"
    /\ args # <<>>
    /\ Head(args) \in {"-p", "--port"}
    /\ portFile' = [exists |-> TRUE, content |-> Arg2(args), writer |-> "proxy"]
    /\ args' = Shift2(args)
    /\ UNCHANGED <<listening, ncInstalled, argv, TAURI_HOST, targetPort, pc,
                   exitStatus, stderr, probed, relay, launches, outsideProxy>>

\* -H|--host: TAURI_HOST="$2"; shift 2.
ParseHost ==
    /\ pc = "args"
    /\ args # <<>>
    /\ Head(args) \in {"-H", "--host"}
    /\ TAURI_HOST' = Arg2(args)
    /\ args' = Shift2(args)
    /\ UNCHANGED <<portFile, listening, ncInstalled, argv, targetPort, pc,
                   exitStatus, stderr, probed, relay, launches, outsideProxy>>

KnownOptions == {"-h", "--help", "-p", "--port", "-H", "--host"}

\* *) an unknown option: the error line, show_help and exit 1.
ParseUnknown ==
    /\ pc = "args"
    /\ args # <<>>
    /\ Head(args) \notin KnownOptions
    /\ stderr' = Append(stderr, [line |-> "unknown option", option |-> Head(args)])
    /\ Exit(1)
    /\ UNCHANGED <<portFile, listening, ncInstalled, argv, args, TAURI_HOST, targetPort,
                   probed, relay, launches, outsideProxy>>

\* The while loop ends: no parameter is left.
ParseDone ==
    /\ pc = "args"
    /\ args = <<>>
    /\ pc' = "check_nc"
    /\ UNCHANGED <<portFile, listening, ncInstalled, argv, args, TAURI_HOST, targetPort,
                   exitStatus, stderr, probed, relay, launches, outsideProxy>>

\* Mutant of CheckNc: a missing netcat ends the script with status 0.
CheckNcLenient ==
    /\ pc = "check_nc"
    /\ IF ncInstalled
       THEN /\ pc' = "info"
            /\ UNCHANGED <<exitStatus, stderr>>
       ELSE /\ stderr' = Append(stderr, [line |-> "nc not installed"])
            /\ Exit(0)
    /\ UNCHANGED <<portFile, listening, ncInstalled, argv, args, TAURI_HOST, targetPort,
                   probed, relay, launches, outsideProxy>>

\* if ! command -v nc: the error lines and exit 1.
CheckNc ==
    /\ pc = "check_nc"
    /\ IF ncInstalled
       THEN /\ pc' = "info"
            /\ UNCHANGED <<exitStatus, stderr>>
       ELSE /\ stderr' = Append(stderr, [line |-> "nc not installed"])
            /\ Exit(1)
    /\ UNCHANGED <<portFile, listening, ncInstalled, argv, args, TAURI_HOST, targetPort,
                   probed, relay, launches, outsideProxy>>

\* The three information lines before connect_to_tauri.
ShowInfo ==
    /\ pc = "info"
    /\ stderr' = Append(stderr, [line |-> "starting", host |-> TAURI_HOST,
                                 port |-> get_port(portFile)])
    /\ pc' = "connect"
    /\ UNCHANGED <<portFile, listening, ncInstalled, argv, args, TAURI_HOST, targetPort,
                   exitStatus, probed, relay, launches, outsideProxy>>

\* connect_to_tauri: local port=$(get_port) and the 'Conectando' line.
ReadPort ==
    /\ pc = "connect"
    /\ targetPort' = get_port(portFile)
    /\ stderr' = Append(stderr, [line |-> "connecting", host |-> TAURI_HOST,
                                 port |-> get_port(portFile)])
    /\ pc' = "probe"
    /\ UNCHANGED <<portFile, listening, ncInstalled, argv, args, TAURI_HOST,
                   exitStatus, probed, relay, launches, outsideProxy>>

\* if ! nc -z "$TAURI_HOST" "$port": the three error lines and exit 1.
Probe ==
    /\ pc = "probe"
    /\ probed' = Append(probed, <<TAURI_HOST, targetPort>> \in listening)
    /\ IF <<TAURI_HOST, targetPort>> \in listening
       THEN /\ pc' = "connected"
            /\ UNCHANGED <<exitStatus, stderr>>
       ELSE /\ stderr' = Append(stderr, [line |-> "cannot connect", host |-> TAURI_HOST,
                                         port |-> targetPort, file |-> PORT_FILE])
            /\ Exit(1)
    /\ UNCHANGED <<portFile, listening, ncInstalled, argv, args, TAURI_HOST, targetPort,
                   relay, launches, outsideProxy>>

\* The 'Conectado' line and exec nc "$TAURI_HOST" "$port": the process
\* becomes the relay between its stdio and the socket.
ExecRelay ==
    /\ pc = "connected"
    /\ stderr' = Append(stderr, [line |-> "connected", host |-> TAURI_HOST,
                                 port |-> targetPort])
    /\ relay' = <<TAURI_HOST, targetPort>>
    /\ pc' = "relay"
    /\ UNCHANGED <<portFile, listening, ncInstalled, argv, args, TAURI_HOST, targetPort,
                   exitStatus, probed, launches, outsideProxy>>

\* The desktop process starts: it listens on a loopback port and writes
\* the port to the port file.
DesktopStarts(p) ==
    /\ p \in DesktopPorts
    /\ <<DefaultHost, p>> \notin listening
    /\ listening' = {<<DefaultHost, p>>}
    /\ portFile' = [exists |-> TRUE, content |-> p, writer |-> "desktop"]
    /\ UNCHANGED <<ncInstalled, argv, args, TAURI_HOST, targetPort, pc, exitStatus,
                   stderr, probed, relay, launches, outsideProxy>>

\* The desktop process ends; its port file stays behind.
DesktopStops ==
    /\ listening # {}
    /\ listening' = {}
    /\ UNCHANGED <<portFile, ncInstalled, argv, args, TAURI_HOST, targetPort, pc,
                   exitStatus, stderr, probed, relay, launches, outsideProxy>>

ProxyInit ==
    /\ portFile \in {NoPortFile} \cup
           {[exists |-> TRUE, content |-> p, writer |-> "desktop"] : p \in DesktopPorts}
    /\ listening \in {{}} \cup {{<<DefaultHost, p>>} : p \in DesktopPorts}
    /\ ncInstalled \in BOOLEAN
    /\ ProxyIdle
    /\ BackgroundIs("false", Null)
    /\ NoPage
    /\ NoPopup

ProxyNext ==
    \/ \E a \in ArgLists : Launch(a)
    \/ ParseHelp
    \/ ParsePort
    \/ ParseHost
    \/ ParseUnknown
    \/ ParseDone
    \/ CheckNc
    \/ ShowInfo
    \/ ReadPort
    \/ Probe
    \/ ExecRelay
    \/ \E p \in DesktopPorts : DesktopStarts(p)
    \/ DesktopStops

ProxySpec == ProxyInit /\ [][ProxyNext]_vars

---------------------------------------------------------------------------
(* AlohoPassPopup: the popup of the extension (src/unnamed/part_000) *)
(* Its handlers run to completion, one at a time; an async handler runs   *)
(* up to its await and resumes when the promise of sendMessage settles.   *)
(* The buttons openApp and settings touch nothing that is modelled here.  *)

MaxPopupEvents == 3

\* What the user can have in the search input.
SearchTexts == {"", "ab", "ab ", "abc", "abcd"}

RECURSIVE trimStart(_)
trimStart(s) ==
    IF Len(s) > 0 /\ SubSeq(s, 1, 1) = " "
    THEN trimStart(SubSeq(s, 2, Len(s)))
    ELSE s

RECURSIVE trimEnd(_)
trimEnd(s) ==
    IF Len(s) > 0 /\ SubSeq(s, Len(s), Len(s)) = " "
    THEN trimEnd(SubSeq(s, 1, Len(s) - 1))
    ELSE s

\* String.prototype.trim.
trim(s) == trimEnd(trimStart(s))

\* The statistics loadStats assigns.
LoadedStats ==
    [loaded |-> TRUE, totalPasswords |-> "42", lastSync |-> "Hace 5 minutos",
     connectedDevices |-> "2"]

SyncingLabel == "<span class=\"loading\"></span> Sincronizando..."

\* What the router's listener passes to sendResponse for a message of the
\* popup, in the state of the background context that receives it.
PopupReply(request) ==
    CASE request.action = "checkConnection" ->
             [connected |-> isConnected]
      [] request.action = "searchPasswords" ->
             IF ~Truthy(isConnected)
             THEN Refusal(NotConnectedError, TRUE)
             ELSE IF connectionPort # Null
                  THEN SimulatedResponse(request)
                  ELSE Refusal(NoPortError, TRUE)
      [] OTHER ->
             [success |-> FALSE, error |-> UnknownActionError]

\* The router answers from its 100 ms timer, not from the listener.
AnsweredByTimer(request) ==
    /\ request.action = "searchPasswords"
    /\ Truthy(isConnected)
    /\ connectionPort # Null

\* AlohoPassPopup.sendMessage: a promise that settles with the router's
\* response; context is what the awaiting handler holds.
popupSendMessage(request, context) ==
    /\ popupSent' = Append(popupSent, request)
    /\ popupPending' = popupPending \cup
           {[id |-> Len(popupSent) + 1, request |-> request,
             response |-> PopupReply(request),
             delayed |-> AnsweredByTimer(request), context |-> context]}

\* Responses arrive in the order of the sendResponse calls: a response of
\* the listener overtakes those of timers armed earlier, nothing else
\* overtakes.
Deliverable(p) ==
    \A q \in popupPending : q.id < p.id => (q.delayed /\ ~p.delayed)

\* showNotification(message, type).
showNotification(text, type) ==
    notices' = Append(notices, [message |-> text, type |-> type])

\* updateStatsDisplay for this.stats = st.
updateStatsDisplay(st) ==
    [written |-> TRUE, totalPasswords |-> st.totalPasswords,
     lastSync |-> st.lastSync, connectedDevices |-> st.connectedDevices]

\* loadStats: nothing unless this.isConnected, else the statistics are
\* assigned and displayed.
loadStats ==
    IF ~Truthy(popupIsConnected)
    THEN UNCHANGED <<popupStats, statsDisplay>>
    ELSE /\ popupStats' = LoadedStats
         /\ statsDisplay' = updateStatsDisplay(LoadedStats)

\* new AlohoPassPopup(): the constructor and init.  checkConnection runs up
\* to its await, then loadStats runs with the isConnected of the constructor.
PopupStart ==
    /\ ~popupLoaded
    /\ popupLoaded' = TRUE
    /\ popupSendMessage([action |-> "checkConnection"], [searchModal |-> 0])
    /\ loadStats
    /\ UNCHANGED popupIsConnected
    /\ popupEvent' = [type |-> "start"]
    /\ UNCHANGED <<statusClass, statsPanel, syncButton, notices, searchModal,
                   modalsCreated, searchInput, searchResults, popupFaults,
                   popupEvents, backgroundVars, pageVars, proxyVars>>

\* checkConnection after its await: the response, or the catch block when
\* chrome.runtime.lastError rejected the promise; then updateConnectionStatus.
ConnectionSettles(p, lastError) ==
    /\ p \in popupPending
    /\ p.request.action = "checkConnection"
    /\ Deliverable(p)
    /\ LET connected == IF lastError THEN "false" ELSE p.response.connected
       IN  /\ popupIsConnected' = connected
           /\ statusClass' = IF Truthy(connected)
                             THEN "status connected"
                             ELSE "status disconnected"
           /\ statsPanel' = IF Truthy(connected) THEN "block" ELSE "none"
    /\ popupPending' = popupPending \ {p}
    /\ popupEvent' = [type |-> "connection", rejected |-> lastError]
    /\ UNCHANGED <<popupLoaded, popupStats, statsDisplay, syncButton, notices,
                   searchModal, modalsCreated, searchInput, searchResults, popupSent,
                   popupFaults, popupEvents, backgroundVars, pageVars, proxyVars>>

\* A click on the syncNow button (a disabled button gets no click): syncNow
\* up to its await.
ClickSync ==
    /\ popupLoaded
    /\ popupEvents < MaxPopupEvents
    /\ ~syncButton.disabled
    /\ IF ~Truthy(popupIsConnected)
       THEN /\ showNotification("No conectado a AlohoPass", "error")
            /\ UNCHANGED <<syncButton, popupSent, popupPending>>
       ELSE /\ syncButton' = [innerHTML |-> SyncingLabel, disabled |-> TRUE]
            /\ popupSendMessage([action |-> "syncNow"], [searchModal |-> 0])
            /\ UNCHANGED notices
    /\ popupEvents' = popupEvents + 1
    /\ popupEvent' = [type |-> "sync"]
    /\ UNCHANGED <<popupLoaded, popupIsConnected, popupStats, statusClass, statsPanel,
                   statsDisplay, searchModal, modalsCreated, searchInput,
                   searchResults, popupFaults, backgroundVars, pageVars, proxyVars>>

\* syncNow after its await: the try or the catch block, then the finally
\* block.  originalText is a const of the try block and is not in scope in
\* the finally block: 'button.innerHTML = originalText' throws a
\* ReferenceError before anything is assigned, and 'button.disabled = false'
\* is not reached.
SyncSettles(p, lastError) ==
    /\ p \in popupPending
    /\ p.request.action = "syncNow"
    /\ Deliverable(p)
    /\ IF lastError
       THEN /\ showNotification("Error al sincronizar", "error")
            /\ UNCHANGED <<popupStats, statsDisplay>>
       ELSE IF p.response.success
            THEN /\ showNotification("Sincronización completada", "success")
                 /\ loadStats
            ELSE /\ showNotification("Error en la sincronización", "error")
                 /\ UNCHANGED <<popupStats, statsDisplay>>
    /\ popupFaults' = popupFaults + 1
    /\ UNCHANGED syncButton
    /\ popupPending' = popupPending \ {p}
    /\ popupEvent' = [type |-> "synced", rejected |-> lastError]
    /\ UNCHANGED <<popupLoaded, popupIsConnected, statusClass, statsPanel, searchModal,
                   modalsCreated, searchInput, searchResults, popupSent, popupEvents,
                   backgroundVars, pageVars, proxyVars>>

\* A click on the searchPasswords button while no modal covers it:
\* createSearchModal when connected.
ClickSearch ==
    /\ popupLoaded
    /\ popupEvents < MaxPopupEvents
    /\ searchModal = 0
    /\ IF ~Truthy(popupIsConnected)
       THEN /\ showNotification("No conectado a AlohoPass", "error")
            /\ UNCHANGED <<searchModal, modalsCreated, searchInput, searchResults>>
       ELSE /\ modalsCreated' = modalsCreated + 1
            /\ searchModal' = modalsCreated + 1
            /\ searchInput' = ""
            /\ searchResults' = NoResults
            /\ UNCHANGED notices
    /\ popupEvents' = popupEvents + 1
    /\ popupEvent' = [type |-> "search"]
    /\ UNCHANGED <<popupLoaded, popupIsConnected, popupStats, statusClass, statsPanel,
                   statsDisplay, syncButton, popupPending, popupSent, popupFaults,
                   backgroundVars, pageVars, proxyVars>>

\* The input listener of the search input, for an edit that leaves text in
\* it: performSearch up to its await for a query of more than 2 characters,
\* else the results area is emptied.
TypeSearch(text) ==
    /\ searchModal # 0
    /\ popupEvents < MaxPopupEvents
    /\ text \in SearchTexts
    /\ text # searchInput
    /\ searchInput' = text
    /\ IF Len(trim(text)) > 2
       THEN /\ popupSendMessage([action |-> "searchPasswords", query |-> trim(text)],
                                [searchModal |-> searchModal])
            /\ UNCHANGED searchResults
       ELSE /\ searchResults' = NoResults
            /\ UNCHANGED <<popupSent, popupPending>>
    /\ popupEvents' = popupEvents + 1
    /\ popupEvent' = [type |-> "input", text |-> text]
    /\ UNCHANGED <<popupLoaded, popupIsConnected, popupStats, statusClass, statsPanel,
                   statsDisplay, syncButton, notices, searchModal, modalsCreated,
                   popupFaults, backgroundVars, pageVars, proxyVars>>

\* What performSearch writes into resultsDiv after its await.
SearchOutcome(p, lastError) ==
    IF lastError
    THEN [kind |-> "error", query |-> p.request.query]
    ELSE IF p.response.success /\ "passwords" \in DOMAIN p.response
              /\ Len(p.response.passwords) > 0
         THEN [kind |-> "results", query |-> p.request.query]
         ELSE [kind |-> "none", query |-> p.request.query]

\* performSearch after its await; the resultsDiv of a modal that was closed
\* is no longer in the document.
SearchSettles(p, lastError) ==
    /\ p \in popupPending
    /\ p.request.action = "searchPasswords"
    /\ Deliverable(p)
    /\ searchResults' = IF p.context.searchModal = searchModal
                        THEN SearchOutcome(p, lastError)
                        ELSE searchResults
    /\ popupPending' = popupPending \ {p}
    /\ popupEvent' = [type |-> "found", rejected |-> lastError]
    /\ UNCHANGED <<popupLoaded, popupIsConnected, popupStats, statusClass, statsPanel,
                   statsDisplay, syncButton, notices, searchModal, modalsCreated,
                   searchInput, popupSent, popupFaults, popupEvents,
                   backgroundVars, pageVars, proxyVars>>

\* A click on closeSearch or on the modal's backdrop: the modal is removed.
CloseSearch ==
    /\ searchModal # 0
    /\ popupEvents < MaxPopupEvents
    /\ searchModal' = 0
    /\ searchInput' = ""
    /\ searchResults' = NoResults
    /\ popupEvents' = popupEvents + 1
    /\ popupEvent' = [type |-> "close"]
    /\ UNCHANGED <<popupLoaded, popupIsConnected, popupStats, statusClass, statsPanel,
                   statsDisplay, syncButton, notices, modalsCreated, popupPending,
                   popupSent, popupFaults, backgroundVars, pageVars, proxyVars>>

PopupInit ==
    /\ PopupOpened
    /\ \E b \in BridgeStates : BackgroundIs(b[1], b[2])
    /\ NoPage
    /\ NoProxy

PopupNext ==
    \/ PopupStart
    \/ \E p \in popupPending, lastError \in BOOLEAN : ConnectionSettles(p, lastError)
    \/ ClickSync
    \/ \E p \in popupPending, lastError \in BOOLEAN : SyncSettles(p, lastError)
    \/ ClickSearch
    \/ \E text \in SearchTexts : TypeSearch(text)
    \/ \E p \in popupPending, lastError \in BOOLEAN : SearchSettles(p, lastError)
    \/ CloseSearch
    \/ \E b \in BridgeStates : BridgeChanges(b)

PopupSpec == PopupInit /\ [][PopupNext]_vars

---------------------------------------------------------------------------
(* Properties *)

Connected == Truthy(isConnected)

ConnectOutcomes == {"connect_native", "connect_fallback", "connect_failed"}

\* C1: a disconnect event leaves the bridge Disconnected (isConnected =
\* false, port cleared) with one reconnect timer armed for it; every
\* disconnect is matched by exactly one reconnect, pending or issued; and
\* a reconnect call is made no earlier than 5 seconds after the disconnect.
C1_ReconnectOnceAfterDelay ==
    /\ [](connectCalls + Len(reconnectTimers) = 1 + disconnects)
    /\ [][disconnects' # disconnects =>
              /\ disconnects' = disconnects + 1
              /\ isConnected' = "false"
              /\ connectionPort' = Null
              /\ Len(reconnectTimers') = Len(reconnectTimers) + 1
              /\ connectCalls' = connectCalls]_vars
    /\ [][connectCalls' # connectCalls =>
              /\ connectCalls' = connectCalls + 1
              /\ Len(reconnectTimers') = Len(reconnectTimers) - 1
              /\ sinceDisconnect >= 5000]_vars

\* C1 witness: a reconnect attempt was made after a disconnect of a
\* connected bridge, with the delay elapsed.
C1_Witness ==
    /\ disconnects >= 1
    /\ connectCalls = disconnects + 1
    /\ lastEvent \in ConnectOutcomes
    /\ sinceDisconnect >= 5000

\* C2: after every transport error (a disconnect, or a connect attempt whose
\* fallback failed too) the bridge is Disconnected and a reconnect attempt is
\* scheduled.
C2_TransportErrorSchedulesRetry ==
    lastEvent \in {"disconnect", "connect_failed"} =>
        /\ ~Connected
        /\ Len(reconnectTimers) >= 1

\* C3: at most one reconnect timer is pending, in every reachable state.
C3_AtMostOneReconnectTimer ==
    Len(reconnectTimers) <= 1

\* C3 witness: a timer is pending after a second disconnect, the first
\* timer having fired.
C3_Witness ==
    /\ disconnects >= 2
    /\ Len(reconnectTimers) = 1

\* C4: at most one native port is live, and it is the one the bridge holds;
\* a port is opened only when none is live.
C4_AtMostOneLivePort ==
    /\ Cardinality(openPorts) <= 1
    /\ connectionPort # Null => openPorts = {connectionPort}

\* C4 witness: a second port is live, the first having disconnected.
C4_Witness ==
    /\ portsOpened >= 2
    /\ openPorts = {connectionPort}

\* C5: every failed native connect attempt is followed by exactly one
\* custom-protocol attempt; when that fails too the bridge is Disconnected,
\* when it succeeds the bridge is Connected.
C5_FallbackOnce ==
    /\ fallbackCalls = nativeFailures
    /\ customListeners <= fallbackCalls
    /\ lastEvent = "connect_failed" => isConnected = "false"
    /\ lastEvent = "connect_fallback" => isConnected = "true" /\ customListeners >= 1

\* C5 witness: a reconnect attempt whose native connect failed and whose
\* fallback succeeded.
C5_Witness ==
    /\ connectCalls >= 2
    /\ nativeFailures = 1
    /\ fallbackCalls = 1
    /\ lastEvent = "connect_fallback"
    /\ Connected

\* C6 as stated: the bridge becomes Connected only by a connect attempt that
\* succeeded since it was last Disconnected.
C6_ConnectedOnlyByConnect ==
    [][(~Connected /\ Connected') =>
           /\ connectCalls' = connectCalls + 1
           /\ lastEvent' \in {"connect_native", "connect_fallback"}]_vars

\* C6 amended: the bridge becomes Connected only by a connect attempt that
\* succeeded or by a connection_status message reporting connected = true
\* on an established transport, and stops being Connected only by a
\* disconnect event or a connection_status message.
C6_ConnectedByConnectOrStatus ==
    /\ [][(~Connected /\ Connected') =>
              \/ /\ connectCalls' = connectCalls + 1
                 /\ lastEvent' \in {"connect_native", "connect_fallback"}
              \/ /\ lastEvent' = "connection_status"
                 /\ connectCalls' = connectCalls
                 /\ openPorts # {} \/ customListeners > 0]_vars
    /\ [][(Connected /\ ~Connected') =>
              lastEvent' \in {"disconnect", "connection_status"}]_vars

\* C6 witness: the bridge is Connected by a connection_status message, on a
\* port that a reconnect attempt opened.
C6_Witness ==
    /\ lastEvent = "connection_status"
    /\ Connected
    /\ connectionPort # Null
    /\ connectCalls >= 2

\* The router's answers to the messages whose action it does not recognize.
UnknownActionAnswers ==
    {responses[i].response : i \in {j \in DOMAIN responses :
        requests[responses[j].req].action \notin RecognizedActions}}

\* C7 as stated: an unrecognized action is answered with
\* {success: false, error: "unrecognized action"}.
C7_UnrecognizedActionText ==
    UnknownActionAnswers \subseteq {[success |-> FALSE, error |-> "unrecognized action"]}

\* C7 amended: a message with an unrecognized action is answered at once with
\* {success: false, error: 'Acción no reconocida'}; the connection state,
\* the timers and the port traffic are unchanged.
C7_UnrecognizedActionRefused ==
    [][(/\ Len(requests') = Len(requests) + 1
        /\ requests'[Len(requests')].action \notin RecognizedActions) =>
           /\ responses' = Append(responses,
                  [req |-> Len(requests'),
                   response |-> [success |-> FALSE, error |-> "Acción no reconocida"]])
           /\ UNCHANGED <<isConnected, connectionPort, openPorts, posted,
                          responseTimers, reconnectTimers>>]_vars

\* C7 witness: an unrecognized action has been answered.
C7_Witness ==
    UnknownActionAnswers # {}

\* C8: every answer to checkConnection is {connected: b} with b a boolean.
C8_CheckConnectionBoolean ==
    \A i \in DOMAIN responses :
        requests[responses[i].req].action = "checkConnection" =>
            responses[i].response.connected \in {"true", "false"}

\* C9: the response to a forwarded getPasswords carries exactly the entries
\* the vault returned for that request, in the vault's order.
C9_ReplyIsVaultReply ==
    \A i \in DOMAIN responses : \A a \in vaultAnswers :
        (/\ a.req = responses[i].req
         /\ requests[a.req].action = "getPasswords"
         /\ a.message.type = "passwords_result") =>
            /\ responses[i].response.success = TRUE
            /\ responses[i].response.passwords = a.message.passwords

\* C10: a vault error reported for a request is the error field of the
\* response delivered for that request.
C10_VaultErrorPropagated ==
    \A i \in DOMAIN responses : \A a \in vaultAnswers :
        (a.req = responses[i].req /\ a.message.type = "error") =>
            /\ "error" \in DOMAIN responses[i].response
            /\ responses[i].response.error = a.message.error

OtherMessageStep ==
    \/ lastEvent' = "other"
    \/ vaultAnswers' # vaultAnswers
    \/ broadcasts' # broadcasts

\* C24: handling an inbound message whose type is not connection_status
\* (passwords_updated, error, or a type the switch does not know) changes
\* neither isConnected nor connectionPort nor the open ports.
C24_OtherMessagesKeepConnection ==
    [][OtherMessageStep
          => /\ isConnected' = isConnected
             /\ connectionPort' = connectionPort
             /\ openPorts' = openPorts]_vars

\* C24 witness: the bridge handled a passwords_result message, a type the
\* switch does not know, and is still connected on its port.
C24_Witness ==
    /\ \E a \in vaultAnswers : a.message.type = "passwords_result"
    /\ lastEvent = "other"
    /\ isConnected = "true"
    /\ connectionPort \in openPorts

\* The actions the router forwards to the vault.
ForwardedActions == {"getPasswords", "createPassword", "searchPasswords"}

\* The responses delivered for request i.
ResponsesTo(i) == {j \in DOMAIN responses : responses[j].req = i}

\* The armed timers that will answer request i.
TimersOf(i) == {t \in responseTimers : t.req = i}

\* C28: every getPasswords, createPassword or searchPasswords message is
\* answered exactly once: at any moment it has either its one response or
\* the one armed timer that will deliver it, whatever the bridge does.
C28_ExactlyOneResponse ==
    \A i \in DOMAIN requests :
        requests[i].action \in ForwardedActions =>
            Cardinality(ResponsesTo(i)) + Cardinality(TimersOf(i)) = 1

\* C28 witness: a request was forwarded on the only port ever opened, the
\* port disconnected, and then the request's timer delivered the response.
C28_Witness ==
    /\ Len(requests) = 1
    /\ requests[1].action \in ForwardedActions
    /\ Len(posted) = 1
    /\ disconnects = 1
    /\ connectCalls = 1
    /\ customListeners = 0
    /\ lastEvent = "other"
    /\ Cardinality(ResponsesTo(1)) = 1
    /\ TimersOf(1) = {}

\* The router receives a forwardable request while isConnected is falsy.
RequestWhileNotConnected ==
    /\ Len(requests') = Len(requests) + 1
    /\ requests'[Len(requests')].action \in ForwardedActions
    /\ ~Truthy(isConnected)

\* C29: a getPasswords, createPassword or searchPasswords message received
\* while the router is not connected is answered in the same step with
\* success = false and the not-connected error, with an empty passwords
\* list for the two queries, and nothing is posted and no timer is armed.
C29_RefusedWhileNotConnected ==
    [][RequestWhileNotConnected
          => LET i == Len(requests')
                 r == responses'[Len(responses')].response
             IN  /\ Len(responses') = Len(responses) + 1
                 /\ responses'[Len(responses')].req = i
                 /\ r.success = FALSE
                 /\ r.error = NotConnectedError
                 /\ requests'[i].action \in {"getPasswords", "searchPasswords"}
                        => ("passwords" \in DOMAIN r /\ r.passwords = <<>>)
                 /\ posted' = posted
                 /\ responseTimers' = responseTimers]_vars

\* C29 witness: a getPasswords message was refused while not connected.
C29_Witness ==
    /\ Len(requests) = 1
    /\ requests[1].action = "getPasswords"
    /\ ~Truthy(isConnected)
    /\ Len(responses) = 1
    /\ responses[1].response.success = FALSE
    /\ responses[1].response.error = NotConnectedError
    /\ posted = <<>>

\* C30: whenever isConnected is true the router holds a native port, so
\* that a getPasswords received in a state that checkConnection reports as
\* connected is forwarded and not refused for want of a port.
C30_ConnectedHasPort ==
    /\ [](isConnected = "true" => connectionPort # Null)
    /\ [][(/\ isConnected = "true"
           /\ Len(requests') = Len(requests) + 1
           /\ requests'[Len(requests')].action = "getPasswords")
              => /\ Len(posted') = Len(posted) + 1
                 /\ responses' = responses]_vars

---------------------------------------------------------------------------
(* Properties of the classifier (ClassifySpec) *)

HasPasswordInput(form) ==
    \E i \in DOMAIN form.elements :
        form.elements[i].tag = "input" /\ form.elements[i].type = "password"

\* An input whose name contains "user", "email" or "login"; any wider
\* notion of a username/email-like input makes fewer forms lack one.
HasUsernameLikeInput(form) ==
    \E i \in DOMAIN form.elements :
        /\ form.elements[i].tag = "input"
        /\ \E k \in {"user", "email", "login"} : Includes(form.elements[i].name, k)

\* The entries of this.forms made for the i-th form of the document.
RecordsOf(i) == {j \in DOMAIN forms : forms[j].element = i}

C17_SignupKeywordWins ==
    scriptLoaded =>
        \A i \in DOMAIN page.forms :
            (HasPasswordInput(page.forms[i]) /\ HasKeyword(page.forms[i], signupKeywords))
                => /\ RecordsOf(i) # {}
                   /\ \A j \in RecordsOf(i) : forms[j].type = "signup"

\* C17 witness: a form whose visible text holds a login keyword and a
\* signup keyword, with a password input, was classified signup.
C17_Witness ==
    /\ scriptLoaded
    /\ \E i \in DOMAIN page.forms :
           /\ HasPasswordInput(page.forms[i])
           /\ \E k \in signupKeywords : Includes(toLowerCase(textContent(page.forms[i])), k)
           /\ \E k \in loginKeywords \ {"password"} :
                  Includes(toLowerCase(textContent(page.forms[i])), k)
           /\ \E j \in RecordsOf(i) : forms[j].type = "signup"

\* C18: a form with no password-type input and no username/email-like
\* input never gets a FormRecord, a data-alohopass-form attribute, an
\* indicator or a listener, whatever keywords it contains.
C18_NoFieldNoCandidate ==
    \A i \in DOMAIN page.forms :
        (~HasPasswordInput(page.forms[i]) /\ ~HasUsernameLikeInput(page.forms[i]))
            => /\ RecordsOf(i) = {}
               /\ dom[i] = Untouched

\* C18 witness: the classifier ran over a form that holds a login or signup
\* keyword but neither kind of input, and left it alone.
C18_Witness ==
    /\ scriptLoaded
    /\ \E i \in DOMAIN page.forms :
           /\ HasKeyword(page.forms[i], loginKeywords \cup signupKeywords)
           /\ ~HasPasswordInput(page.forms[i])
           /\ ~HasUsernameLikeInput(page.forms[i])
           /\ page.forms[i].elements # <<>>
           /\ dom[i] = Untouched

OneRecordPerForm ==
    /\ \A i \in DOMAIN page.forms : Cardinality(RecordsOf(i)) <= 1
    /\ \A j, k \in DOMAIN forms : forms[j].formId = forms[k].formId => j = k
    /\ \A i \in DOMAIN page.forms :
           IF RecordsOf(i) = {}
           THEN dom[i].attr = ""
           ELSE \A j \in RecordsOf(i) : dom[i].attr = forms[j].formId

\* C19 as stated: at most one FormRecord per DOM form, distinct formIds,
\* and every FormRecord has a non-null password role slot.
C19_RecordHasPasswordSlot ==
    /\ OneRecordPerForm
    /\ \A j \in DOMAIN forms : forms[j].fields.password # Null

\* C19 amended: at most one FormRecord per DOM form, distinct formIds (each
\* the form's tag), and a FormRecord has a non-null password slot exactly
\* when its form contains a password-type input; a form without one gets a
\* FormRecord only by a username/email-like input.
C19_RecordPerFormPasswordOptional ==
    /\ OneRecordPerForm
    /\ \A j \in DOMAIN forms :
           LET form == page.forms[forms[j].element]
           IN  /\ forms[j].fields.password # Null <=> HasPasswordInput(form)
               /\ ~HasPasswordInput(form) => HasUsernameLikeInput(form)

\* C19 witness: a document with two FormRecords, one of them for a form
\* without a password input.
C19_Witness ==
    /\ scriptLoaded
    /\ Len(forms) >= 2
    /\ \E j \in DOMAIN forms : forms[j].fields.password = Null
    /\ \E j \in DOMAIN forms : forms[j].fields.password # Null

\* The non-null role slots of a role map that hold element e.
SlotsOf(fields, e) == {slot \in {"username", "password", "email"} : fields[slot] = e}

\* C20: in the role map of every FormRecord no input element is assigned
\* to more than one of the slots username, password and email.
C20_RoleSlotsExclusive ==
    \A j \in DOMAIN forms :
        \A e \in DOMAIN page.forms[forms[j].element].elements :
            Cardinality(SlotsOf(forms[j].fields, e)) <= 1

\* The FormRecords of form i of the document.
RecordsFor(map, i) == {j \in DOMAIN map : map[j].element = i}

\* C27: running the content script on a document changes no input value and
\* dispatches no input event; a form that was classified gets the
\* data-alohopass-form attribute, position relative and one indicator, and
\* a form that was not classified is left as it was.
C27_ClassificationKeepsValues ==
    [][(~scriptLoaded /\ scriptLoaded')
          => /\ values' = values
             /\ inputEvents' = inputEvents
             /\ page' = page
             /\ \A i \in DOMAIN dom :
                    IF RecordsFor(forms', i) # {}
                    THEN \E j \in RecordsFor(forms', i) :
                             dom'[i] = [dom[i] EXCEPT !.attr = forms'[j].formId,
                                                      !.position = "relative",
                                                      !.indicators = @ + 1,
                                                      !.listeners = dom'[i].listeners]
                    ELSE dom'[i] = dom[i]]_vars

\* C27 witness: a document with prefilled inputs was classified, one form
\* became a candidate and another did not.
C27_Witness ==
    /\ scriptLoaded
    /\ \E x \in AllInputs(page) : values[x] # ""
    /\ \E i \in DOMAIN dom : dom[i].indicators = 1 /\ RecordsFor(forms, i) # {}
    /\ \E i \in DOMAIN dom : dom[i] = Untouched

\* C31: every FormRecord has a non-null username slot or a non-null
\* password slot: a form passes the candidate test by a password input,
\* which the password slot then holds, or by an input named like a
\* username, which the username slot then holds.
C31_RecordHasUsernameOrPassword ==
    \A j \in DOMAIN forms :
        LET form == page.forms[forms[j].element]
            fields == forms[j].fields
        IN  /\ fields.username # Null \/ fields.password # Null
            /\ HasPasswordInput(form) <=> fields.password # Null
            /\ HasUsernameLikeInput(form) => fields.username # Null

\* C31 witness: a FormRecord of a form without a password input, which
\* became a candidate by its username-like input alone.
C31_Witness ==
    /\ scriptLoaded
    /\ \E j \in DOMAIN forms :
           /\ forms[j].fields.password = Null
           /\ forms[j].fields.username # Null
           /\ forms[j].fields.email = Null

---------------------------------------------------------------------------
(* Properties of the Suggestion Controller (PageSpec) *)

\* The step is the handling of a user event of the given type.
UserEvent(type) == userEvents' = userEvents + 1 /\ pageEvent'.type = type

CheckAnswered == \A p \in pending : p.request.action # "checkConnection"

LastSent == sent[Len(sent)]

\* C12: in a loaded page whose connection check was answered, a focus on a
\* field of a classified form while the bridge is Connected issues a
\* getPasswords request, also when the bridge was Disconnected at page load.
C12_PassiveRecovery ==
    [][(UserEvent("focus") /\ Connected /\ CheckAnswered)
          => /\ Len(sent') = Len(sent) + 1
             /\ sent'[Len(sent')].action = "getPasswords"]_vars

\* C13: selecting a suggestion for a form with both a username and a
\* password role slot leaves the username element's value equal to the
\* suggestion's username and the password element's value equal to the
\* suggestion's password, and each of the two elements dispatched an input
\* event.
C13_AutofillWritesBoth ==
    [][UserEvent("select")
          => LET formData == FormData(pageEvent'.formId)
                 username == <<formData.element, formData.fields.username>>
                 password == <<formData.element, formData.fields.password>>
             IN  (formData.fields.username # Null /\ formData.fields.password # Null)
                     => /\ values'[username] = pageEvent'.password.username
                        /\ values'[password] = pageEvent'.password.password
                        /\ inputEvents'[username] > inputEvents[username]
                        /\ inputEvents'[password] > inputEvents[password]]_vars

\* The step is a submit event on a signup-classified form that sends
\* exactly one message, a createPassword request whose username and
\* password are the values of the role-mapped fields at submit time and
\* whose title is the given one.
SubmitCreates(formData, title) ==
    /\ Len(sent') = Len(sent) + 1
    /\ sent'[Len(sent')].action = "createPassword"
    /\ sent'[Len(sent')].entry.username =
           FieldValue(formData.element, formData.fields.username)
    /\ sent'[Len(sent')].entry.password =
           FieldValue(formData.element, formData.fields.password)
    /\ sent'[Len(sent')].entry.title = title

SignupRecords(f) == {j \in RecordsOf(f) : forms[j].type = "signup"}

\* C14 as stated: every submit event on a signup-classified form issues
\* exactly one createPassword request with the fields' current values and
\* the page title as its title.
C14_SubmitCreatesWithPageTitle ==
    [][UserEvent("submit")
          => \A j \in SignupRecords(pageEvent'.form) :
                 SubmitCreates(forms[j], page.title)]_vars

\* C14 amended: every submit event on a signup-classified form issues
\* exactly one createPassword request with the fields' current values,
\* whose title is the page title or, when the page title is empty, the
\* page's domain; whatever the content script's connection flag.
C14_SubmitCreatesWithTitleOrDomain ==
    [][UserEvent("submit")
          => \A j \in SignupRecords(pageEvent'.form) :
                 SubmitCreates(forms[j],
                               IF page.title # "" THEN page.title ELSE forms[j].domain)]_vars

\* C14 witness: with the connection flag unset, a signup form whose
\* password field holds a typed value was submitted in a titled page, and
\* the createPassword request carries the page title and that value.
C14_Witness ==
    /\ pageEvent.type = "submit"
    /\ SignupRecords(pageEvent.form) # {}
    /\ ~Truthy(pageIsConnected)
    /\ page.title # ""
    /\ Len(sent) >= 2
    /\ LastSent.action = "createPassword"
    /\ LastSent.entry.title = page.title
    /\ LastSent.entry.password \in TypedValues

\* C15: at any time the document holds at most one suggestion overlay per
\* classified form.
C15_OneOverlayPerForm ==
    \A o1, o2 \in overlays : o1.formId = o2.formId => o1 = o2

\* C25: a click outside the displayed overlays removes every overlay that
\* was not opened by the clicked input, and a click on a suggestion item
\* writes the suggestion into the form and removes the item's overlay.
C25_ClickRemovesOverlay ==
    [][/\ UserEvent("click")
           => \A o \in overlays : o.input # pageEvent'.target => o \notin overlays'
       /\ UserEvent("select")
           => /\ \A o \in overlays : o.formId = pageEvent'.formId => o \notin overlays'
              /\ values' = autofillForm(FormData(pageEvent'.formId),
                                        pageEvent'.password).values]_vars

\* C25 witness: an item was clicked, its suggestion is in the form and no
\* overlay is left.
C25_Witness ==
    /\ pageEvent.type = "select"
    /\ overlaysCreated > 0
    /\ overlays = {}
    /\ \E x \in AllInputs(page) : values[x] = pageEvent.password.password

\* The role-mapped inputs of a FormRecord.
RoleMapped(formData) ==
    {<<formData.element, formData.fields[slot]>> :
        slot \in {s \in {"username", "password", "email"} : formData.fields[s] # Null}}

\* C26: every outstanding suggestion request carries the domain and the
\* classification of the form whose input was focused, every overlay belongs
\* to the form of the input that opened it, and selecting a suggestion
\* changes only role-mapped inputs of the overlay's form.
C26_RequestsIndependent ==
    /\ [](\A p \in pending :
             p.request.action = "getPasswords"
                 => /\ p.context.input[1] = FormData(p.context.formId).element
                    /\ p.request.domain = FormData(p.context.formId).domain
                    /\ p.request.formType = FormData(p.context.formId).type)
    /\ [](\A o \in overlays : o.input[1] = FormData(o.formId).element)
    /\ [][UserEvent("select")
             => \A x \in DOMAIN values :
                    values'[x] # values[x] => x \in RoleMapped(FormData(pageEvent'.formId))]_vars

\* C26 witness: suggestions were requested for two forms, both overlays
\* were displayed, and a suggestion was selected in one of them.
C26_Witness ==
    /\ Len(forms) = 2
    /\ \E i, j \in DOMAIN sent :
           /\ sent[i].action = "getPasswords"
           /\ sent[j].action = "getPasswords"
           /\ sent[i].formType # sent[j].formType
    /\ overlaysCreated = 2
    /\ pageEvent.type = "select"
    /\ \E x \in RoleMapped(FormData(pageEvent.formId)) : values[x] # ""

\* The step sends a createPassword request to the router.
CreateRequested ==
    /\ Len(sent') = Len(sent) + 1
    /\ sent'[Len(sent')].action = "createPassword"

\* The classification of form f of the document, "none" without a FormRecord.
TypeOf(f) ==
    IF RecordsFor(forms, f) = {}
    THEN "none"
    ELSE forms[CHOOSE j \in RecordsFor(forms, f) : TRUE].type

\* C32: a submit of a form classified login sends nothing, and a
\* createPassword request is sent only by the submit of a form classified
\* signup or by a click on the create-new control of an overlay.
C32_LoginSubmitCreatesNothing ==
    [][/\ (UserEvent("submit") /\ TypeOf(pageEvent'.form) = "login") => sent' = sent
       /\ CreateRequested
           => \/ UserEvent("submit") /\ TypeOf(pageEvent'.form) = "signup"
              \/ UserEvent("create") /\ \E o \in overlays : o.formId = pageEvent'.formId]_vars

\* C32 witness: a login form with typed credentials was submitted and no
\* createPassword request has been sent.
C32_Witness ==
    /\ pageEvent.type = "submit"
    /\ TypeOf(pageEvent.form) = "login"
    /\ \E x \in InputsOf(page, pageEvent.form) : values[x] # ""
    /\ \A i \in DOMAIN sent : sent[i].action # "createPassword"

---------------------------------------------------------------------------
(* Properties of the Host Proxy (ProxySpec) *)

\* The launch was given no -H option: the target host is the default one.
DefaultHostLaunch == \A i \in DOMAIN argv : argv[i] \notin {"-H", "--host"}

\* The diagnostic of a failed probe: host, port and the port-file path.
ProbeDiagnostic ==
    [line |-> "cannot connect", host |-> TAURI_HOST, port |-> targetPort,
     file |-> PORT_FILE]

\* C21: a launch that finds no port file when it reads the port targets
\* 127.0.0.1:12345; a launch probes at most once; after a failed probe it
\* has written the diagnostic (host, port, port-file path) to its error
\* stream and exited with status 1, with no relay started; and it is the
\* relay only after a probe that succeeded.
C21_DefaultPortSingleProbe ==
    /\ [](Len(probed) <= 1)
    /\ []((probed = <<FALSE>>)
             => /\ pc = "exited"
                /\ exitStatus = 1
                /\ stderr[Len(stderr)] = ProbeDiagnostic
                /\ relay = NoRelay)
    /\ [](pc = "relay" => (probed = <<TRUE>> /\ relay = <<TAURI_HOST, targetPort>>))
    /\ [][(pc = "connect" /\ pc' = "probe" /\ ~portFile.exists)
             => /\ targetPort' = "12345"
                /\ DefaultHostLaunch => TAURI_HOST' = "127.0.0.1"]_vars

\* C21 witness: a launch without a port file probed 127.0.0.1:12345 once,
\* found nothing listening and exited with status 1.
C21_Witness ==
    /\ ~portFile.exists
    /\ pc = "exited"
    /\ exitStatus = 1
    /\ probed = <<FALSE>>
    /\ TAURI_HOST = "127.0.0.1"
    /\ targetPort = "12345"
    /\ relay = NoRelay

\* The step handles -p n (or --port n) with n given.
PortOptionStep ==
    /\ pc = "args"
    /\ Len(args) >= 2
    /\ Head(args) \in {"-p", "--port"}
    /\ args' # args

\* C22: handling -p n writes n to the port file; and as long as the port
\* file was last written by a -p option (of this launch or of an earlier
\* one), a launch that has read the port probes and relays to that port.
C22_PortOverridePersists ==
    /\ [][PortOptionStep
             => (portFile'.exists /\ portFile'.content = args[2])]_vars
    /\ []((pc \in {"probe", "connected", "relay"} /\ portFile.writer = "proxy")
             => targetPort = portFile.content)
    /\ []((pc = "relay" /\ portFile.writer = "proxy")
             => relay[2] = portFile.content)

\* C22 witness: a second launch, without any option, relays to the port an
\* earlier launch was given with -p, the desktop not having written the
\* port file.
C22_Witness ==
    /\ launches = 2
    /\ argv = <<>>
    /\ pc = "relay"
    /\ portFile.writer = "proxy"
    /\ relay = <<"127.0.0.1", "5000">>

\* The cases in which the script ends by itself.
HelpCase == args # <<>> /\ Head(args) \in {"-h", "--help"}

UnknownOptionCase == args # <<>> /\ Head(args) \notin KnownOptions

NcMissingCase == args = <<>> /\ ~ncInstalled

UnreachableCase == probed = <<FALSE>>

\* C23: the script exits with status 1 exactly when it met an unknown
\* option, found no nc or failed its probe, and with status 0 exactly for
\* -h/--help; no relay was started by a launch that exited, and a launch
\* that became the relay did not exit.
C23_ExitStatus ==
    /\ pc = "exited" =>
           /\ exitStatus \in {0, 1}
           /\ exitStatus = 1 <=> (UnknownOptionCase \/ NcMissingCase \/ UnreachableCase)
           /\ exitStatus = 0 <=> HelpCase
           /\ relay = NoRelay
    /\ pc # "exited" => exitStatus = -1
    /\ (UnknownOptionCase \/ NcMissingCase \/ UnreachableCase) => relay = NoRelay

\* C23 witness: a launch without nc exited with status 1 before any probe.
C23_Witness ==
    /\ pc = "exited"
    /\ exitStatus = 1
    /\ NcMissingCase
    /\ probed = <<>>
    /\ relay = NoRelay

---------------------------------------------------------------------------
(* Properties of the popup (PopupSpec) *)

\* The requests of the popup with the given action that did not settle yet.
Outstanding(action) == {p \in popupPending : p.request.action = action}

\* C33: once the connection check resolved with connected = true and no
\* request of the popup is outstanding, the statistics are loaded and
\* displayed.
C33_StatsShownWhenConnected ==
    (/\ popupLoaded
     /\ Truthy(popupIsConnected)
     /\ popupPending = {})
        => /\ popupStats = LoadedStats
           /\ statsDisplay = updateStatsDisplay(LoadedStats)

\* C34: while the search input holds at most 2 characters after trimming
\* the results area is empty; while it holds a longer query and no search
\* is outstanding the results area shows the outcome of that query.
C34_ResultsFollowInput ==
    searchModal # 0 =>
        IF Len(trim(searchInput)) <= 2
        THEN searchResults = NoResults
        ELSE Outstanding("searchPasswords") = {}
                 => /\ searchResults # NoResults
                    /\ searchResults.query = trim(searchInput)

\* C35: whenever no sync attempt is outstanding the sync button is enabled
\* and shows the label of popup.html.
C35_SyncButtonRestored ==
    Outstanding("syncNow") = {} =>
        syncButton = [innerHTML |-> FromHtml, disabled |-> FALSE]

====
